---- MODULE Spec2Model ----
(***************************************************************************)
(* The browser client of legalEase (src/main.js) as a state machine.       *)
(*                                                                         *)
(* The script runs on one event loop: a handler runs to its next `await`   *)
(* without interruption, so every action below is one handler run from an  *)
(* event (a click, a submit, a page load, a response arriving) to the next *)
(* await or to its end.  Requests that were sent and not yet answered are  *)
(* kept in `inflight`; their responses arrive in any order.                *)
(*                                                                         *)
(* JavaScript null / undefined is the string "null" where the value is a   *)
(* string and the number 0 where it is an analysis id (both are falsy in   *)
(* the source's tests `if (id)`, `if (appState.token)`, `if (data?.id)`).  *)
(* JavaScript undefined where a string is expected is "undefined".         *)
(***************************************************************************)
EXTENDS Integers, Sequences, FiniteSets, TLC

VARIABLES
    appState,      \* the script's appState object
    dom,           \* the part of the document the script reads and writes
    localStorage,  \* the three persisted keys
    inflight,      \* requests sent and not yet answered, in sending order
    lastLoad,      \* history: the analysis id of the load started last
    lastCall,      \* history: the response apiCall took up last and what it made of it
    scope          \* the subsystem a specification follows; never changes

vars == <<appState, dom, localStorage, inflight, lastLoad, lastCall, scope>>

\* ------------------------------------------------------------------ bounds

MaxId == 2          \* analysis ids are 1..MaxId
MaxPending == 2     \* at most this many requests are in flight at once
MaxAsk == 2         \* at most this many questions are asked per page load
MaxText == 3        \* a page's text has at most this many characters
MaxPages == 2       \* a document has at most this many pages
MaxSpans == 2       \* an analysis has at most this many highlight spans
MaxEvents == 2         \* events of a timeline that differ in their dates
MaxReminders == 1      \* windows opened and notifications shown by reminder clicks
MaxActions == 2        \* action items of an analysis

AnalysisIds == 1..MaxId

\* ------------------------------------------------------------- JS values

Null == "null"

\* undefined, as a value and as the string a template literal makes of it
Undefined == "undefined"

Truthy(s) == s \notin {Null, Undefined, ""}

Digits == <<"1", "2", "3", "4", "5", "6", "7", "8", "9">>

\* String(id) and template interpolation `${id}` of an id
idString(n) == IF n \in 1..Len(Digits) THEN Digits[n] ELSE Undefined

\* parseInt(s): the number a decimal string denotes, NaN (falsy, here 0) otherwise
parseInt(s) ==
    IF \E n \in 1..Len(Digits) : Digits[n] = s
    THEN CHOOSE n \in 1..Len(Digits) : Digits[n] = s
    ELSE 0

\* o.f of a JSON object, undefined (the default) when the object has no such field
Field(o, f, default) == IF f \in DOMAIN o THEN o[f] ELSE default

EmptyObject == [kind |-> "object"]

\* --------------------------------------------------------------- apiCall

JsonTypes == {"application/json", "application/json; charset=utf-8"}

UnknownError == "An unknown error occurred"
SyntaxErrorMessage == "Unexpected token < in JSON at position 0"
NullDetailMessage == "Cannot read properties of null (reading 'detail')"

Return(v) == [threw |-> FALSE, message |-> "", value |-> v]
Throw(m) == [threw |-> TRUE, message |-> m, value |-> EmptyObject]

\* The headers apiCall puts on its request.
apiHeaders(token, isFormData) ==
    [Authorization |-> IF Truthy(token) THEN "Bearer " \o token ELSE Null,
     ContentType |-> IF isFormData THEN Null ELSE "application/json"]

\* The request apiCall hands to fetch.
apiRequest(token, method, endpoint, isFormData) ==
    [method |-> method, endpoint |-> endpoint,
     headers |-> apiHeaders(token, isFormData)]

\* response.json(): the parsed body, or a SyntaxError when the body is no JSON
responseJson(resp) ==
    IF resp.body.syntax = "invalid" THEN Throw(SyntaxErrorMessage)
    ELSE Return(resp.body.value)

\* new Error(x).message for the `detail` of an error body
ErrorMessage(body) ==
    IF body.detailKind = "string" /\ body.detail # "" THEN body.detail
    ELSE IF body.detailKind = "list" THEN "[object Object]"
    ELSE UnknownError

\* What apiCall does with the response: the value it returns or the error it throws.
apiCallResult(resp) ==
    IF ~resp.ok THEN
        IF responseJson(resp).threw THEN responseJson(resp)
        ELSE IF resp.body.syntax = "null" THEN Throw(NullDetailMessage)
        ELSE Throw(ErrorMessage(resp.body))
    ELSE IF resp.ctype # Null /\ resp.ctype \in JsonTypes THEN responseJson(resp)
    ELSE Return(EmptyObject)

\* ------------------------------------------------------------- the world

\* The script's reachable memory, threaded through the handlers' statements.
World == [app |-> appState, dom |-> dom, ls |-> localStorage, net |-> inflight]

Containers == {"login", "register", "dashboard", "upload", "loading", "error",
               "results", "landing"}

\* The analysis object {} that appState.currentAnalysis starts with, and that a
\* success response without a JSON body stands for.
EmptyAnalysis == [id |-> 0, shape |-> "ok"]

NoFile == <<>>

\* The persisted keys of a browser that has never shown the page.
EmptyStorage == [chimeraToken |-> Null, chimeraPage |-> Null, chimeraAnalysisId |-> Null]

\* The export button of a dashboard row as renderDashboardList writes it.
FreshButton == [label |-> "Export", disabled |-> FALSE]

\* The document as index.html gives it, before init has shown a view.
FreshDom ==
    [hidden |-> [c \in Containers |-> TRUE],
     coFabHidden |-> TRUE,
     navToUploadHidden |-> FALSE,
     navToDashboardHidden |-> FALSE,
     assessment |-> 0, keyInfo |-> 0, actions |-> 0, pages |-> 0,
     actionCards |-> <<>>,        \* the cards of #actions-list, in order
     docName |-> <<>>,            \* the name in #doc-viewer-filename
     exact |-> [toggle |-> FALSE, on |-> FALSE, loaded |-> FALSE],
                                  \* #exact-toggle: present, pressed, the PDF's frame loaded
     extracted |-> <<>>,          \* per page, the child nodes of its p.page-text
     panel |-> "analysis",
     timelineVisited |-> FALSE,   \* history: the timeline tab was opened since the last render
     timeline |-> [summaryOf |-> 0, unavailable |-> FALSE, eventsOf |-> 0],
     timelineEvents |-> <<>>,     \* the cards of #timeline-events, in order
     timelineGiven |-> <<>>,      \* history: the events renderTimeline was last given
     opened |-> <<>>,             \* the links window.open was called with
     notified |-> 0,              \* history: the notifications shown
     errorMessage |-> "",
     rows |-> {},
     search |-> <<>>,             \* #dashboard-search's value
     sort |-> "",                 \* #dashboard-sort's value
     controlsBound |-> FALSE,     \* the two controls have their listeners
     listed |-> <<>>,             \* the items of the rows of #analyses-list, in order
     emptyState |-> FALSE,        \* #analyses-list holds the empty-state message
     confirm |-> 0,
     confirmFading |-> FALSE,
     exportBtn |-> [id \in AnalysisIds |-> FreshButton],
     timers |-> <<>>,
     downloaded |-> "",
     popupOpen |-> FALSE,
     popupLog |-> <<>>,
     conversationLog |-> <<>>,
     asked |-> 0,
     notification |-> "",
     fileSelectedHidden |-> TRUE,
     analyzeDisabled |-> TRUE]

FreshAppState ==
    [token |-> Null, selectedFile |-> NoFile, currentAnalysis |-> EmptyAnalysis,
     conversationHistory |-> <<>>, dashboardItems |-> <<>>]

\* The containers that do not carry the class `hidden`.
Visible(d) == {c \in Containers : ~d.hidden[c]}

\* ----------------------------------------------------------- showState

\* showState without its first step, which hides every container
showStateNoHide(w, st) ==
    LET state == IF st \in {"landing", "login", "register"} THEN "dashboard" ELSE st
        shown == IF state \in Containers
                 THEN [w.dom.hidden EXCEPT ![state] = FALSE] ELSE w.dom.hidden
        landing == [shown EXCEPT !["landing"] = ~(state = "landing")]
    IN  [w EXCEPT !.dom.hidden = landing,
                  !.dom.coFabHidden = ~(state = "results"),
                  !.dom.navToUploadHidden = (state = "upload"),
                  !.dom.navToDashboardHidden = (state = "dashboard"),
                  !.ls.chimeraPage = state]

showState(w, st) ==
    LET state == IF st \in {"landing", "login", "register"} THEN "dashboard" ELSE st
        allHidden == [c \in Containers |-> TRUE]
        shown == IF state \in Containers
                 THEN [allHidden EXCEPT ![state] = FALSE] ELSE allHidden
        landing == [shown EXCEPT !["landing"] = ~(state = "landing")]
    IN  [w EXCEPT !.dom.hidden = landing,
                  !.dom.coFabHidden = ~(state = "results"),
                  !.dom.navToUploadHidden = (state = "upload"),
                  !.dom.navToDashboardHidden = (state = "dashboard"),
                  !.ls.chimeraPage = state]

\* showError that sets the message and leaves the view as it is
showErrorNoSwitch(w, errorMessage) == [w EXCEPT !.dom.errorMessage = errorMessage]

showError(w, errorMessage) ==
    showState([w EXCEPT !.dom.errorMessage = errorMessage], "error")

\* notified counts the notifications where a specification tells them apart
showNotification(w, message) ==
    [w EXCEPT !.dom.notification = message,
              !.dom.notified = IF scope = "events" THEN @ + 1 ELSE @]

\* ------------------------------------------------------------ requests

\* fetch(...) up to the await: the request joins those in flight.  k names the
\* continuation that runs when the response arrives, id the handler's local id.
\* The requests a specification follows.  The timeline requests read and write
\* nothing but the timeline pane, the delete requests nothing but the dashboard
\* list and the notification: a specification about something else does not
\* follow them.
Followed ==
    CASE scope = "views" -> {"dashboard", "load", "analyze", "login"}
      [] scope = "auth" -> {"dashboard", "load", "login"}
      [] scope = "api" -> {"dashboard", "login"}
      [] scope = "export" -> {"dashboard", "login", "export"}
      [] scope = "dashboard" -> {"dashboard", "delete"}
      [] scope = "upload" -> {"dashboard", "analyze"}
      [] scope = "chat" -> {"dashboard", "load", "query"}
      [] scope = "timeline" ->
            {"dashboard", "load", "timeline_list", "timeline_gen_try", "timeline_gen_catch"}
      [] scope = "highlight" -> {"load"}
      [] scope = "list" -> {"dashboard"}
      [] scope = "load" -> {"dashboard", "load", "analyze"}
      [] scope = "events" -> {"load", "timeline_list"}
      [] scope = "results" -> {"dashboard", "load", "eli5"}
      [] OTHER -> {}

\* failed is history: the requests (method, endpoint) that this user action has
\* already seen fail.
send(w, k, id, req, failed) ==
    IF k \in Followed
    THEN [w EXCEPT !.net = Append(@, [k |-> k, id |-> id, req |-> req, failed |-> failed])]
    ELSE w

Sent(req) == <<req.method, req.endpoint>>

CanSend == Len(inflight) < MaxPending

Remove(seq, i) == SubSeq(seq, 1, i - 1) \o SubSeq(seq, i + 1, Len(seq))

\* The world when the response to inflight[i] is taken up.
Taken(i) == [World EXCEPT !.net = Remove(@, i)]

JsonBody(v) == [syntax |-> "object", detailKind |-> "absent", detail |-> "", value |-> v]

OkJson(v) == [ok |-> TRUE, ctype |-> "application/json", body |-> JsonBody(v)]

OkNoJson == [ok |-> TRUE, ctype |-> "text/html",
             body |-> [syntax |-> "invalid", detailKind |-> "absent", detail |-> "",
                       value |-> EmptyObject]]

ErrDetail(d) == [ok |-> FALSE, ctype |-> "application/json",
                 body |-> [syntax |-> "object", detailKind |-> "string", detail |-> d,
                           value |-> EmptyObject]]

\* ------------------------------------------------------------ rendering

Outcome(w, threw, message) == [w |-> w, threw |-> threw, message |-> message]

\* ------------------------------------------------------------ highlights

\* escapeHTML, character by character
Entity(c) ==
    CASE c = "&" -> "&amp;"
      [] c = "<" -> "&lt;"
      [] c = ">" -> "&gt;"
      [] c = "\"" -> "&quot;"
      [] c = "'" -> "&#039;"
      [] OTHER -> c

escapeHTML(str) == [i \in 1..Len(str) |-> Entity(str[i])]

MarkOpen == "<mark class=\"bg-yellow-200 risk-hl\" title=\"Risk Highlight\">"
MarkClose == "</mark>"

\* What the HTML parser makes of a character reference or a character.
Decoded(token) ==
    CASE token = "&amp;" -> "&"
      [] token = "&lt;" -> "<"
      [] token = "&gt;" -> ">"
      [] token = "&quot;" -> "\""
      [] token = "&#039;" -> "'"
      [] OTHER -> token

TextNode(text) == [mark |-> FALSE, text |-> text]

\* the index of the first token of html that is tag, Len(html) + 1 if none is
IndexOf(html, tag) ==
    IF \E j \in 1..Len(html) : html[j] = tag
    THEN CHOOSE j \in 1..Len(html) : html[j] = tag /\ \A k \in 1..(j - 1) : html[k] # tag
    ELSE Len(html) + 1

\* p.innerHTML = html: the child nodes the parser builds, text nodes and marks
RECURSIVE innerHTML(_)
innerHTML(html) ==
    IF html = <<>> THEN <<>>
    ELSE IF Head(html) = MarkOpen
    THEN LET close == IndexOf(html, MarkClose)
         IN  <<[mark |-> TRUE,
                text |-> [i \in 1..(close - 2) |-> Decoded(html[i + 1])]]>>
             \o innerHTML(SubSeq(html, close + 1, Len(html)))
    ELSE LET open == IndexOf(html, MarkOpen)
         IN  <<TextNode([i \in 1..(open - 1) |-> Decoded(html[i])])>>
             \o innerHTML(SubSeq(html, open, Len(html)))

\* p.textContent
RECURSIVE textContent(_)
textContent(nodes) ==
    IF nodes = <<>> THEN <<>> ELSE Head(nodes).text \o textContent(Tail(nodes))

\* text.slice(from, to)
slice(text, from, to) == SubSeq(text, from + 1, to)

Max(a, b) == IF a >= b THEN a ELSE b
Min(a, b) == IF a <= b THEN a ELSE b

\* the comparison of the sort: by start, then by end
Before(a, b) == a.s < b.s \/ (a.s = b.s /\ a.e < b.e)

\* Array.prototype.sort with that comparison (stable)
RECURSIVE sortRanges(_)
sortRanges(ranges) ==
    IF ranges = <<>> THEN <<>>
    ELSE LET rest == sortRanges(Tail(ranges))
             r == Head(ranges)
             at == IF \E j \in 1..Len(rest) : Before(rest[j], r)
                   THEN CHOOSE j \in 1..Len(rest) :
                            /\ Before(rest[j], r)
                            /\ \A k \in (j + 1)..Len(rest) : ~Before(rest[k], r)
                   ELSE 0
         IN  SubSeq(rest, 1, at) \o <<r>> \o SubSeq(rest, at + 1, Len(rest))

\* the matches of a page that carry numbers, clamped to the text; empty ones dropped
RECURSIVE clampedRanges(_, _)
clampedRanges(list, text) ==
    IF list = <<>> THEN <<>>
    ELSE LET m == Head(list)
             r == [s |-> Max(0, m.char_start), e |-> Min(Len(text), m.char_end)]
             rest == clampedRanges(Tail(list), text)
         IN  IF "char_start" \in DOMAIN m /\ "char_end" \in DOMAIN m /\ r.e > r.s
             THEN <<r>> \o rest
             ELSE rest

\* the merge loop, were adjacent ranges kept apart
RECURSIVE mergeRangesOverlappingOnly(_, _)
mergeRangesOverlappingOnly(ranges, merged) ==
    IF ranges = <<>> THEN merged
    ELSE LET r == Head(ranges)
             n == Len(merged)
         IN  IF n = 0 \/ r.s >= merged[n].e
             THEN mergeRangesOverlappingOnly(Tail(ranges), Append(merged, r))
             ELSE mergeRangesOverlappingOnly(Tail(ranges),
                              [merged EXCEPT ![n].e = Max(merged[n].e, r.e)])

\* the merge loop over the sorted ranges, merged being the ranges merged so far
RECURSIVE mergeRanges(_, _)
mergeRanges(ranges, merged) ==
    IF ranges = <<>> THEN merged
    ELSE LET r == Head(ranges)
             n == Len(merged)
         IN  IF n = 0 \/ r.s > merged[n].e
             THEN mergeRanges(Tail(ranges), Append(merged, r))
             ELSE mergeRanges(Tail(ranges),
                              [merged EXCEPT ![n].e = Max(merged[n].e, r.e)])

\* the markup built from the merged ranges, pos being the characters written
RECURSIVE markup(_, _, _)
markup(text, merged, pos) ==
    IF merged = <<>>
    THEN IF pos < Len(text) THEN escapeHTML(slice(text, pos, Len(text))) ELSE <<>>
    ELSE LET r == Head(merged)
         IN  (IF pos < r.s THEN escapeHTML(slice(text, pos, r.s)) ELSE <<>>)
             \o <<MarkOpen>> \o escapeHTML(slice(text, r.s, r.e)) \o <<MarkClose>>
             \o markup(text, Tail(merged), r.e)

\* byPage.get(pageIdx): the matches of a page, in their order in matches
matchesOfPage(matches, pageIdx) ==
    SelectSeq(matches, LAMBDA m : Field(m, "page_index", 0) = pageIdx)

\* clearHighlights: every mark gives way to a text node of its text
clearHighlights(nodes) == [i \in 1..Len(nodes) |-> TextNode(nodes[i].text)]

\* applyHighlights on one text page: its paragraph is rewritten when a range is left
highlightPage(nodes, list) ==
    LET text == textContent(nodes)
        ranges == sortRanges(clampedRanges(list, text))
    IN  IF list = <<>> \/ ranges = <<>> THEN nodes
        ELSE innerHTML(markup(text, mergeRanges(ranges, <<>>), 0))

\* applyHighlights(matches) over the text pages of the extracted view
applyHighlights(w, matches) ==
    [w EXCEPT !.dom.extracted =
        [p \in 1..Len(@) |->
            highlightPage(clearHighlights(@[p]), matchesOfPage(matches, p - 1))]]

NoText == <<"N", "o", " ", "t", "e", "x", "t", ".">>

\* the extracted view of renderResults: one paragraph per page of text
extractedPages(data) ==
    LET pages == Field(data, "extracted_text", <<>>)
    IN  [p \in 1..Len(pages) |->
            <<TextNode(IF pages[p] = <<>> THEN NoText ELSE pages[p])>>]

\* toLowerCase of a part of a file name
LowerCase(s) ==
    CASE s = "PDF" -> "pdf"
      [] s = "TXT" -> "txt"
      [] s = "EXE" -> "exe"
      [] OTHER -> s

\* the card renderResults writes for an action item
actionCard(item) ==
    [text |-> Field(item, "text", Undefined),
     originalHidden |-> FALSE, eli5Hidden |-> TRUE, eli5Text |-> "", loaded |-> FALSE,
     label |-> "Simplify", disabled |-> FALSE, collapsed |-> TRUE]

\* #actions-list, were the cards of an analysis added to those it holds
actionsListAppended(cards, data) ==
    LET items == Field(data, "identified_actions", <<>>)
    IN  cards \o [i \in 1..Len(items) |-> actionCard(items[i])]

\* #actions-list after renderResults has emptied it and added a card per item
actionsList(cards, data) ==
    LET items == Field(data, "identified_actions", <<>>)
    IN  [i \in 1..Len(items) |-> actionCard(items[i])]

\* (data.filename || '').toLowerCase().endsWith('.pdf'), the name given as its
\* dot-separated parts
isPdf(filename) == Len(filename) >= 2 /\ LowerCase(filename[Len(filename)]) = "pdf"

\* displayName of renderResults
displayName(w, data) ==
    IF Field(data, "filename", <<>>) # <<>> THEN data.filename
    ELSE IF w.app.selectedFile # NoFile THEN w.app.selectedFile
    ELSE <<"Document">>

\* renderResults(data): the panes are filled one after the other; a field of the
\* payload that is set but is no array (data.shape names it) makes its forEach
\* throw, which leaves the panes filled so far and the view unchanged.  The
\* cards that leave the document take the requests of their buttons with them.
renderResults(w, data) ==
    LET w1 == [w EXCEPT !.app.currentAnalysis = data,
                        !.app.conversationHistory = <<>>,
                        !.ls.chimeraAnalysisId =
                            IF data.id # 0 THEN idString(data.id) ELSE @]
        w2 == [w1 EXCEPT !.dom.assessment = data.id, !.dom.keyInfo = 0]
        w3 == [w2 EXCEPT !.dom.keyInfo = data.id, !.dom.actions = 0,
                         !.dom.actionCards = actionsList(@, EmptyObject),
                         !.net = [i \in DOMAIN @ |->
                                     IF @[i].k = "eli5" THEN [@[i] EXCEPT !.attached = FALSE]
                                     ELSE @[i]]]
        w4 == [w3 EXCEPT !.dom.actions = data.id,
                         !.dom.actionCards = actionsList(@, data),
                         !.dom.docName = displayName(w3, data),
                         !.dom.pages = 0,
                         !.dom.extracted = <<>>,
                         !.dom.exact =
                             [toggle |-> /\ isPdf(Field(data, "filename", <<>>))
                                         /\ Field(data, "page_images", <<>>) = <<>>,
                              on |-> FALSE, loaded |-> FALSE]]
        w5 == [w4 EXCEPT !.dom.pages = data.id,
                         !.dom.extracted = IF Field(data, "page_images", <<>>) # <<>>
                                           THEN <<>> ELSE extractedPages(data)]
        wh == IF Field(data, "risk_highlights", <<>>) # <<>>
              THEN applyHighlights(w5, data.risk_highlights)
              ELSE w5
        w6 == [showState(wh, "results") EXCEPT !.dom.panel = "analysis",
                                               !.dom.timelineVisited = FALSE]
    IN  IF data.shape = "key_info"
        THEN Outcome(w2, TRUE, "data.key_info.forEach is not a function")
        ELSE IF data.shape = "identified_actions"
        THEN Outcome(w3, TRUE, "data.identified_actions.forEach is not a function")
        ELSE IF data.shape = "extracted_text"
        THEN Outcome(w4, TRUE, "data.extracted_text.forEach is not a function")
        ELSE Outcome(w6, FALSE, "")

\* handleExpandToggle(button) for the button of the i-th card
handleExpandToggle(w, i) == [w EXCEPT !.dom.actionCards[i].collapsed = ~@]

\* the click listener of #exact-toggle: exactOn = !exactOn; updateView()
exactToggleClicked(w) ==
    [w EXCEPT !.dom.exact = [toggle |-> @.toggle, on |-> ~@.on,
                             loaded |-> @.loaded \/ ~@.on]]

\* handleEli5Toggle that asks for the explanation whether it is loaded or not
handleEli5ToggleNoCache(w, i) ==
    LET card == w.dom.actionCards[i]
        req == apiRequest(w.app.token, "POST", "/query", FALSE)
        waiting == [w EXCEPT !.dom.actionCards[i].label = "...",
                             !.dom.actionCards[i].disabled = TRUE]
        sent == send(waiting, "eli5", w.app.currentAnalysis.id, req, {})
    IN  IF sent.net = waiting.net THEN sent
        ELSE [sent EXCEPT !.net[Len(sent.net)] =
                 [k |-> @.k, id |-> @.id, req |-> @.req, failed |-> @.failed,
                  item |-> i, prevLabel |-> card.label, attached |-> TRUE]]

\* handleEli5Toggle(button) for the button of the i-th card, up to its await;
\* the request keeps the card it is for, the label to restore and whether the
\* card is still in the document
handleEli5Toggle(w, i) ==
    LET card == w.dom.actionCards[i]
        showingEli5 == ~card.eli5Hidden
        req == apiRequest(w.app.token, "POST", "/query", FALSE)
        waiting == [w EXCEPT !.dom.actionCards[i].label = "...",
                             !.dom.actionCards[i].disabled = TRUE]
        sent == send(waiting, "eli5", w.app.currentAnalysis.id,
                     [method |-> req.method, endpoint |-> req.endpoint,
                      headers |-> req.headers,
                      body |-> [question |->
                                    "Explain in very simple terms (ELI5) what this means: \""
                                    \o card.text \o "\". Use 1-2 short sentences.",
                                history |-> <<>>]], {})
    IN  IF card.loaded
        THEN IF showingEli5
             THEN [w EXCEPT !.dom.actionCards[i].eli5Hidden = TRUE,
                            !.dom.actionCards[i].originalHidden = FALSE,
                            !.dom.actionCards[i].label = "ELI5"]
             ELSE [w EXCEPT !.dom.actionCards[i].originalHidden = TRUE,
                            !.dom.actionCards[i].eli5Hidden = FALSE,
                            !.dom.actionCards[i].label = "Original"]
        ELSE IF sent.net = waiting.net THEN sent
        ELSE [sent EXCEPT !.net[Len(sent.net)] =
                 [k |-> @.k, id |-> @.id, req |-> @.req, failed |-> @.failed,
                  item |-> i, prevLabel |-> card.label, attached |-> TRUE]]

\* handleEli5Toggle after its await; a card that has left the document is
\* written to out of sight
handleEli5ToggleResumed(w, e, r) ==
    IF r.threw
    THEN LET notified == showNotification(w, "Failed to load ELI5 explanation.")
         IN  IF ~e.attached THEN notified
             ELSE [notified EXCEPT !.dom.actionCards[e.item].label = e.prevLabel,
                                   !.dom.actionCards[e.item].disabled = FALSE]
    ELSE IF ~e.attached THEN w
    ELSE [w EXCEPT !.dom.actionCards[e.item].eli5Text =
                       IF Field(r.value, "answer", "") # "" THEN r.value.answer
                       ELSE "No explanation available.",
                   !.dom.actionCards[e.item].loaded = TRUE,
                   !.dom.actionCards[e.item].originalHidden = TRUE,
                   !.dom.actionCards[e.item].eli5Hidden = FALSE,
                   !.dom.actionCards[e.item].label = "Original",
                   !.dom.actionCards[e.item].disabled = FALSE]

\* String.prototype.toLowerCase, character by character
lowerChar(c) == CASE c = "A" -> "a" [] c = "B" -> "b" [] OTHER -> c
toLowerCase(str) == [i \in 1..Len(str) |-> lowerChar(str[i])]

\* String.prototype.includes
includes(str, sub) ==
    \E k \in 0..(Len(str) - Len(sub)) : SubSeq(str, k + 1, k + Len(sub)) = sub

\* The collation of localeCompare: digits before letters and a letter before
\* the next whatever their case (PrimaryWeight); between strings that differ in
\* case only, the lower-case letter first (CaseWeight).
PrimaryWeight(c) ==
    CASE c = " " -> 1 [] c = "-" -> 2 [] c = ":" -> 3
      [] c = "0" -> 10 [] c = "1" -> 11 [] c = "2" -> 12 [] c = "3" -> 13
      [] c = "4" -> 14 [] c = "5" -> 15
      [] c \in {"a", "A"} -> 20 [] c \in {"b", "B"} -> 21 [] c \in {"m", "M"} -> 22
      [] c \in {"r", "R"} -> 23 [] c \in {"t", "T"} -> 24 [] c \in {"z", "Z"} -> 25
      [] OTHER -> 0
CaseWeight(c) == IF c \in {"A", "B", "M", "R", "T", "Z"} THEN 1 ELSE 0

\* the comparison of two sequences of weights: -1, 0 or 1
RECURSIVE compareWeights(_, _)
compareWeights(x, y) ==
    IF x = <<>> THEN (IF y = <<>> THEN 0 ELSE 0 - 1)
    ELSE IF y = <<>> THEN 1
    ELSE IF Head(x) < Head(y) THEN 0 - 1
    ELSE IF Head(x) > Head(y) THEN 1
    ELSE compareWeights(Tail(x), Tail(y))

\* a.localeCompare(b)
localeCompare(a, b) ==
    LET primary == compareWeights([i \in 1..Len(a) |-> PrimaryWeight(a[i])],
                                  [i \in 1..Len(b) |-> PrimaryWeight(b[i])])
    IN  IF primary # 0 THEN primary
        ELSE compareWeights([i \in 1..Len(a) |-> CaseWeight(a[i])],
                            [i \in 1..Len(b) |-> CaseWeight(b[i])])

\* the comparison of the sort, were the default order by creation date ascending
compareItemsDefaultAscending(a, b, sort) ==
    IF sort = "date_asc"
    THEN localeCompare(Field(a, "created_at", <<>>), Field(b, "created_at", <<>>))
    ELSE IF sort = "alpha_asc"
    THEN localeCompare(Field(a, "filename", <<>>), Field(b, "filename", <<>>))
    ELSE IF sort = "alpha_desc"
    THEN localeCompare(Field(b, "filename", <<>>), Field(a, "filename", <<>>))
    ELSE localeCompare(Field(a, "created_at", <<>>), Field(b, "created_at", <<>>))

\* the comparison function of list.sort
compareItems(a, b, sort) ==
    IF sort = "date_asc"
    THEN localeCompare(Field(a, "created_at", <<>>), Field(b, "created_at", <<>>))
    ELSE IF sort = "alpha_asc"
    THEN localeCompare(Field(a, "filename", <<>>), Field(b, "filename", <<>>))
    ELSE IF sort = "alpha_desc"
    THEN localeCompare(Field(b, "filename", <<>>), Field(a, "filename", <<>>))
    ELSE localeCompare(Field(b, "created_at", <<>>), Field(a, "created_at", <<>>))

\* Array.prototype.sort with that comparison (stable)
RECURSIVE sortItems(_, _)
sortItems(list, sort) ==
    IF list = <<>> THEN <<>>
    ELSE LET rest == sortItems(Tail(list), sort)
             x == Head(list)
             at == IF \E j \in 1..Len(rest) : compareItems(rest[j], x, sort) < 0
                   THEN CHOOSE j \in 1..Len(rest) :
                            /\ compareItems(rest[j], x, sort) < 0
                            /\ \A k \in (j + 1)..Len(rest) :
                                  compareItems(rest[k], x, sort) >= 0
                   ELSE 0
         IN  SubSeq(rest, 1, at) \o <<x>> \o SubSeq(rest, at + 1, Len(rest))

\* the filter, were the filename compared as it is written
filterItemsCaseSensitive(list, query) ==
    IF query = <<>> THEN list
    ELSE SelectSeq(list, LAMBDA i : includes(Field(i, "filename", <<>>), query))

\* list.filter(...) when the query is not empty
filterItems(list, query) ==
    IF query = <<>> THEN list
    ELSE SelectSeq(list, LAMBDA i : includes(toLowerCase(Field(i, "filename", <<>>)), query))

\* renderDashboardList: the items that match the search box, in the order of
\* the sort control, one row each, or the empty-state message.
\* The rows are written anew: the buttons that timers and awaiting exports hold
\* are no longer in the document.
renderDashboardList(w) ==
    LET query == toLowerCase(w.dom.search)
        sort == IF w.dom.sort = "" THEN "date_desc" ELSE w.dom.sort
        list == sortItems(filterItems(w.app.dashboardItems, query), sort)
    IN
    [w EXCEPT !.dom.rows = {list[i].id : i \in 1..Len(list)},
              !.dom.listed = list,
              !.dom.emptyState = (list = <<>>),
              !.dom.exportBtn = [id \in AnalysisIds |-> FreshButton],
              !.dom.timers = <<>>,
              !.net = [i \in DOMAIN @ |->
                          IF @[i].k = "export" THEN [@[i] EXCEPT !.btn = FALSE] ELSE @[i]]]

\* ----------------------------------------------------- dates of events

\* A text is a sequence of pieces; a piece that escapeHTML, the date parser or
\* the collation looks into is a single character.
RECURSIVE Joined(_)
Joined(pieces) == IF pieces = <<>> THEN "" ELSE Head(pieces) \o Joined(Tail(pieces))

IsDigit(c) == c \in {"0", "1", "2", "3", "4", "5", "6", "7", "8", "9"}

\* the date-only form of the date-time string format: YYYY-MM-DD
IsIsoDate(t) ==
    /\ Len(t) = 10
    /\ \A i \in {1, 2, 3, 4, 6, 7, 9, 10} : IsDigit(t[i])
    /\ t[5] = "-" /\ t[8] = "-"
    /\ \/ t[6] = "0" /\ t[7] # "0"
       \/ t[6] = "1" /\ t[7] \in {"0", "1", "2"}
    /\ \/ t[9] = "0" /\ t[10] # "0"
       \/ t[9] \in {"1", "2"}
       \/ t[9] = "3" /\ t[10] \in {"0", "1"}

\* the date-time form: YYYY-MM-DDTHH:mm:ss, with or without Z
IsIsoDateTime(t) ==
    /\ Len(t) \in {19, 20}
    /\ IsIsoDate(SubSeq(t, 1, 10))
    /\ t[11] = "T"
    /\ \A i \in {12, 13, 15, 16, 18, 19} : IsDigit(t[i])
    /\ t[14] = ":" /\ t[17] = ":"
    /\ t[12] \in {"0", "1"} \/ (t[12] = "2" /\ t[13] \in {"0", "1", "2", "3"})
    /\ t[15] \in {"0", "1", "2", "3", "4", "5"}
    /\ t[18] \in {"0", "1", "2", "3", "4", "5"}
    /\ Len(t) = 20 => t[20] = "Z"

MonthNames ==
    <<"Jan", "Feb", "Mar", "Apr", "May", "Jun", "Jul", "Aug", "Sep", "Oct", "Nov", "Dec">>
MonthNumbers ==
    <<<<"0", "1">>, <<"0", "2">>, <<"0", "3">>, <<"0", "4">>, <<"0", "5">>, <<"0", "6">>,
      <<"0", "7">>, <<"0", "8">>, <<"0", "9">>, <<"1", "0">>, <<"1", "1">>, <<"1", "2">>>>

\* a form the browsers parse besides those: Mon D YYYY
IsMonthDayYear(t) ==
    /\ Len(t) = 10
    /\ \E m \in 1..12 : Joined(SubSeq(t, 1, 3)) = MonthNames[m]
    /\ t[4] = " " /\ t[6] = " "
    /\ IsDigit(t[5]) /\ t[5] # "0"
    /\ \A i \in 7..10 : IsDigit(t[i])

\* new Date(text): whether the date is valid (getTime() is not NaN) and its
\* day YYYYMMDD; the time zone of the browser is taken to be UTC.
NewDate(text) ==
    IF IsIsoDate(text) \/ IsIsoDateTime(text)
    THEN [valid |-> TRUE,
          day |-> SubSeq(text, 1, 4) \o SubSeq(text, 6, 7) \o SubSeq(text, 9, 10)]
    ELSE IF IsMonthDayYear(text)
    THEN [valid |-> TRUE,
          day |-> SubSeq(text, 7, 10)
                  \o MonthNumbers[CHOOSE m \in 1..12 :
                                      Joined(SubSeq(text, 1, 3)) = MonthNames[m]]
                  \o <<"0", text[5]>>]
    ELSE [valid |-> FALSE, day |-> <<>>]

\* d.toLocaleDateString(undefined, {year: 'numeric', month: 'short', day: '2-digit'})
\* in the locale en-US
toLocaleDateString(d) ==
    LET month == CHOOSE m \in 1..12 : MonthNumbers[m] = SubSeq(d.day, 5, 6)
    IN  <<MonthNames[month], " ">> \o SubSeq(d.day, 7, 8) \o <<",", " ">>
        \o SubSeq(d.day, 1, 4)

\* formatDate with one fallback for every kind
formatDateOneFallback(iso, kind) ==
    IF iso = <<>> THEN <<"Date not specified">>
    ELSE IF ~NewDate(iso).valid THEN <<"Date not specified">>
    ELSE toLocaleDateString(NewDate(iso))

\* formatDate(iso, kind); a date that is missing (undefined, null) is read as
\* the empty text, which the code tells from it nowhere
formatDate(iso, kind) ==
    LET fallback == IF kind = "payment_due" THEN <<"Due date not specified">>
                    ELSE IF kind = "action_required" THEN <<"Deadline not specified">>
                    ELSE <<"Date not specified">>
    IN  IF iso = <<>> THEN fallback
        ELSE IF ~NewDate(iso).valid THEN fallback
        ELSE toLocaleDateString(NewDate(iso))

\* the comparison function of events.sort
compareEvents(a, b) == localeCompare(Field(a, "date", <<>>), Field(b, "date", <<>>))

\* events.sort with that comparison (stable)
RECURSIVE sortEvents(_)
sortEvents(events) ==
    IF events = <<>> THEN <<>>
    ELSE LET rest == sortEvents(Tail(events))
             x == Head(events)
             at == IF \E j \in 1..Len(rest) : compareEvents(rest[j], x) < 0
                   THEN CHOOSE j \in 1..Len(rest) :
                            /\ compareEvents(rest[j], x) < 0
                            /\ \A k \in (j + 1)..Len(rest) : compareEvents(rest[k], x) >= 0
                   ELSE 0
         IN  SubSeq(rest, 1, at) \o <<x>> \o SubSeq(rest, at + 1, Len(rest))

\* the card of an event: the lines renderTimeline writes and the event its
\* reminder button's listener holds
eventCard(ev) ==
    [date |-> escapeHTML(formatDate(Field(ev, "date", <<>>), Field(ev, "kind", Undefined))),
     label |-> escapeHTML(Field(ev, "label", <<>>)),
     eventId |-> Field(ev, "id", 0),
     ev |-> ev]

\* renderTimeline(data)
renderTimeline(w, data) ==
    LET summary == Field(data, "lifecycle_summary", FALSE)
        events == sortEvents(Field(data, "events", <<>>))
        of == Field(data, "of", 0)
    IN  [w EXCEPT !.dom.timeline =
            [summaryOf |-> IF summary THEN of ELSE @.summaryOf,
             unavailable |-> IF summary THEN Field(data, "unavailable", FALSE)
                             ELSE @.unavailable,
             eventsOf |-> IF events # <<>> THEN of ELSE 0],
                  !.dom.timelineEvents = [i \in 1..Len(events) |-> eventCard(events[i])],
                  !.dom.timelineGiven = Field(data, "events", <<>>)]

TimelineUnavailable ==
    [kind |-> "object", of |-> 0, lifecycle_summary |-> TRUE, unavailable |-> TRUE,
     events |-> <<>>]

\* encodeURIComponent, character by character
Escaped(c) ==
    CASE c = " " -> "%20"
      [] c = "<" -> "%3C"
      [] c = "&" -> "%26"
      [] OTHER -> c

encodeURIComponent(str) == [i \in 1..Len(str) |-> Escaped(str[i])]

\* getDefaultTimes(kind), each time split at its colon
getDefaultTimes(kind) ==
    CASE kind = "payment_due" ->
            [start |-> <<"09", "00">>, end |-> <<"09", "30">>]
      [] kind = "action_required" ->
            [start |-> <<"10", "00">>, end |-> <<"11", "00">>]
      [] kind = "key_date" ->
            [start |-> <<"09", "00">>, end |-> <<"17", "00">>]
      [] OTHER ->
            [start |-> <<"09", "00">>, end |-> <<"10", "00">>]

\* formatTime(date, time): YYYYMMDDTHHMMSSZ
formatTime(date, time) == date.day \o <<"T">> \o time \o <<"00", "Z">>

Midnight == <<"T", "0", "0", ":", "0", "0", ":", "0", "0">>

\* The body of the try block of createGoogleCalendarEvent: the error it throws
\* or the link it opens.
calendarUrl(event) ==
    LET date == Field(event, "date", <<>>)
        label == Field(event, "label", <<>>)
        first == IF includes(date, <<"-">>) THEN NewDate(date \o Midnight \o <<"Z">>)
                 ELSE NewDate(date)
        eventDate == IF first.valid THEN first ELSE NewDate(date \o Midnight)
        kind == Field(event, "kind", Undefined)
        times == getDefaultTimes(IF kind = Undefined THEN "key_date" ELSE kind)
        eventDescription ==
            IF Field(event, "description", <<>>) = <<>>
            THEN <<"Reminder from legal document analysis">>
            ELSE event.description
    IN  IF date = <<>> \/ label = <<>>
        THEN Throw("Invalid event data: missing required fields")
        ELSE IF ~eventDate.valid
        THEN Throw("Invalid date format: " \o Joined(date))
        ELSE Return([text |-> encodeURIComponent(label),
                     dates |-> <<formatTime(eventDate, times.start),
                                 formatTime(eventDate, times.end)>>,
                     details |-> encodeURIComponent(eventDescription)])

\* createGoogleCalendarEvent that opens the link whatever the date
createGoogleCalendarEventUnchecked(w, event) ==
    [w EXCEPT !.dom.opened =
        Append(@, [text |-> encodeURIComponent(Field(event, "label", <<>>)),
                   dates |-> <<>>, details |-> <<>>])]

\* createGoogleCalendarEvent(event): window.open, or the catch block
createGoogleCalendarEvent(w, event) ==
    LET r == calendarUrl(event)
    IN  IF r.threw
        THEN showNotification(w, "Unable to create calendar reminder: " \o r.message)
        ELSE [w EXCEPT !.dom.opened = Append(@, r.value)]

\* the document's listener for clicks on a .reminder-btn, up to its await;
\* email is the answer to its first prompt, empty when the prompt is dismissed
reminderClicked(w, eventId, email, days) ==
    IF email = "" THEN w
    ELSE LET req == apiRequest(w.app.token, "POST", "/reminders", FALSE)
         IN  send(w, "reminder", w.app.currentAnalysis.id,
                  [method |-> req.method, endpoint |-> req.endpoint,
                   headers |-> req.headers,
                   body |-> [analysis_id |-> w.app.currentAnalysis.id,
                             event_id |-> eventId, email |-> email,
                             days_before |-> days]], {})

\* that listener after its await
reminderResumed(w, r) ==
    IF r.threw THEN showNotification(w, "Could not schedule reminder.")
    ELSE showNotification(w, "Reminder scheduled.")

\* ------------------------------------------------------------- handlers

\* deleted and superseded are history: the items whose deletion the server
\* confirmed while the request was pending, and whether a listing requested
\* later has been answered already.
updateDashboard(w) ==
    LET sent == send(showState(w, "dashboard"), "dashboard", 0,
                     apiRequest(w.app.token, "GET", "/analyses/dashboard", FALSE), {})
    IN  IF sent.net = w.net THEN sent
        ELSE [sent EXCEPT !.net[Len(sent.net)] =
                  [k |-> @.k, id |-> @.id, req |-> @.req, failed |-> @.failed,
                   deleted |-> {}, superseded |-> FALSE]]

\* Only the specification of the dashboard list keeps the history of its listings.
\* The listings requested before the i-th request in flight are superseded.
supersede(w, i) ==
    IF scope # "dashboard" THEN w
    ELSE [w EXCEPT !.net = [j \in DOMAIN @ |->
              IF j < i /\ @[j].k = "dashboard" THEN [@[j] EXCEPT !.superseded = TRUE]
              ELSE @[j]]]

\* The listings in flight were requested before the deletion of id was confirmed.
deletedMeanwhile(w, id) ==
    IF scope # "dashboard" THEN w
    ELSE [w EXCEPT !.net = [j \in DOMAIN @ |->
              IF @[j].k = "dashboard" THEN [@[j] EXCEPT !.deleted = @ \cup {id}]
              ELSE @[j]]]

\* fetchTimeline up to its first await
fetchTimeline(w) ==
    send(w, "timeline_list", w.app.currentAnalysis.id,
         apiRequest(w.app.token, "GET",
                    "/timeline/" \o idString(w.app.currentAnalysis.id), FALSE), {})

\* the generation request of fetchTimeline; k tells the try block from the catch block
\* call is history: the analysis id of the listing request of the same
\* fetchTimeline call.
generateTimeline(w, k, failed, call) ==
    LET sent == send(w, k, w.app.currentAnalysis.id,
                     apiRequest(w.app.token, "POST", "/timeline", FALSE), failed)
    IN  IF sent.net = w.net THEN sent
        ELSE [sent EXCEPT !.net[Len(sent.net)] =
                  [k |-> @.k, id |-> @.id, req |-> @.req, failed |-> @.failed,
                   call |-> call]]

\* loadAnalysis up to its await
loadAnalysis(w, analysisId) ==
    send(showState(w, "loading"), "load", analysisId,
         apiRequest(w.app.token, "GET", "/analyses/" \o idString(analysisId), FALSE), {})

\* logout that leaves the view as it is
logoutNoRoute(w) == [w EXCEPT !.app.token = Null, !.ls.chimeraToken = Null]

\* logout that clears every persisted key
logoutClearAll(w) ==
    [showState([w EXCEPT !.app.token = Null], "dashboard") EXCEPT !.ls = EmptyStorage]

\* exportAnalysisPDF up to its await: the button of the row shows progress and
\* a timer is set to restore it, then fetch is called with a header of its own
exportAnalysisPDF(w, analysisId) ==
    LET found == analysisId \in w.dom.rows
        originalContent == w.dom.exportBtn[analysisId].label
        w1 == IF found
              THEN [w EXCEPT !.dom.exportBtn[analysisId] =
                                 [label |-> "Exporting...", disabled |-> TRUE],
                             !.dom.timers =
                                 Append(@, [id |-> analysisId, content |-> originalContent])]
              ELSE w
        req == [method |-> "GET",
                endpoint |-> "/analyses/" \o idString(analysisId) \o "/export",
                headers |-> [Authorization |-> "Bearer " \o w.app.token,
                             ContentType |-> Null]]
    IN  IF "export" \in Followed
        THEN [w1 EXCEPT !.net = Append(@, [k |-> "export", id |-> analysisId, req |-> req,
                                          failed |-> {}, btn |-> found])]
        ELSE w1

\* ---- the chat: the bubbles of a chat log

UserBubble(question) == [kind |-> "user", text |-> question, id |-> 0]

\* the placeholder with id thinking-<n>
ThinkingBubble(n) == [kind |-> "thinking", text |-> "Thinking...", id |-> n]

\* the placeholder element after its content was replaced by the answer
AnswerBubble(answer, n) == [kind |-> "answer", text |-> answer, id |-> n]

\* the placeholder element after its content was replaced by the error bubble
ErrorBubble(message, n) == [kind |-> "error", text |-> "Error: " \o message, id |-> n]

renderConversationHtml(messages) ==
    [i \in 1..Len(messages) |->
        IF messages[i].role = "user" THEN UserBubble(messages[i].content)
        ELSE AnswerBubble(messages[i].content, 0)]

\* document.getElementById(thinkingId), then innerHTML = ...: the element is
\* in the in-panel log or in the log of the popup that is open now, or nowhere
replaceThinking(w, n, bubble) ==
    LET in(log) == [j \in 1..Len(log) |-> IF log[j].id = n THEN bubble ELSE log[j]]
    IN  [w EXCEPT !.dom.conversationLog = in(@), !.dom.popupLog = in(@)]

\* an analysis object with no extracted_text makes .join throw
NoTextMessage == "Cannot read properties of undefined (reading 'join')"

\* handleQuery up to its await.  The placeholder's id thinking-<Date.now()> is
\* the number of the question on this page.
handleQuery(w, question) ==
    LET popupLog == w.dom.popupOpen
        n == w.dom.asked + 1
        w1 == IF popupLog THEN w
              ELSE [w EXCEPT !.dom.conversationLog = Append(@, UserBubble(question))]
        w2 == IF popupLog
              THEN [w1 EXCEPT !.dom.asked = n, !.dom.popupLog = Append(@, ThinkingBubble(n))]
              ELSE [w1 EXCEPT !.dom.asked = n,
                              !.dom.conversationLog = Append(@, ThinkingBubble(n))]
        req == [method |-> "POST", endpoint |-> "/query",
                headers |-> apiHeaders(w.app.token, FALSE),
                body |-> [question |-> question,
                          history |-> w.app.conversationHistory,
                          analysis_id |-> w.app.currentAnalysis.id]]
    IN  IF w.app.currentAnalysis.id = 0
        THEN replaceThinking(w2, n, ErrorBubble(NoTextMessage, n))
        ELSE IF "query" \in Followed
        THEN [w2 EXCEPT !.net = Append(@, [k |-> "query", id |-> w.app.currentAnalysis.id,
                                          req |-> req, failed |-> {},
                                          thinkingId |-> n, popup |-> popupLog])]
        ELSE w2

\* the submit handler of the popup's form: the user bubble, the user turn, then
\* handleQuery
popupSubmit(w, q) ==
    handleQuery(
        [w EXCEPT !.dom.popupLog = Append(@, UserBubble(q)),
                  !.app.conversationHistory =
                      Append(@, [role |-> "user", content |-> q,
                                 of |-> w.app.currentAnalysis.id])],
        q)

\* openChatPopup: the log starts as the rendering of the history
openChatPopup(w) ==
    [w EXCEPT !.dom.popupOpen = TRUE,
              !.dom.popupLog = renderConversationHtml(w.app.conversationHistory)]

logout(w) ==
    showState([w EXCEPT !.app.token = Null, !.ls.chimeraToken = Null], "dashboard")

resetUpload(w) ==
    [w EXCEPT !.app.selectedFile = NoFile,
              !.dom.fileSelectedHidden = TRUE,
              !.dom.analyzeDisabled = TRUE]

AllowedExtensions == {"pdf", "doc", "docx", "txt", "rtf"}

\* file.name.split('.').pop().toLowerCase() of a name given as its dot-separated parts
Extension(file) == LowerCase(file[Len(file)])

handleFileSelect(w, file) ==
    IF file = NoFile THEN w
    ELSE IF Extension(file) \notin AllowedExtensions
    THEN [w EXCEPT !.dom.errorMessage =
                       "Unsupported file type. Allowed: PDF, DOC, DOCX, TXT, RTF.",
                   !.app.selectedFile = NoFile,
                   !.dom.fileSelectedHidden = TRUE,
                   !.dom.analyzeDisabled = TRUE]
    ELSE [w EXCEPT !.dom.errorMessage = "",
                   !.app.selectedFile = file,
                   !.dom.fileSelectedHidden = FALSE,
                   !.dom.analyzeDisabled = FALSE]

\* init that does not restore the last viewed page
initNoRestore(ls) ==
    updateDashboard([app |-> FreshAppState, dom |-> FreshDom,
                     ls |-> [ls EXCEPT !.chimeraToken = Null], net |-> <<>>])

\* The DOMContentLoaded handler: a fresh script state over the persisted keys,
\* then init's restore of the last viewed page.
init(ls) ==
    LET w == [app |-> FreshAppState, dom |-> FreshDom,
              ls |-> [ls EXCEPT !.chimeraToken = Null], net |-> <<>>]
        saved == w.ls.chimeraPage
        lastId == parseInt(IF w.ls.chimeraAnalysisId # Null
                           THEN w.ls.chimeraAnalysisId ELSE "")
    IN  IF saved = "upload" THEN showState(w, "upload")
        ELSE IF saved = "results" /\ lastId # 0 THEN loadAnalysis(w, lastId)
        ELSE updateDashboard(w)

\* ------------------------------------------------------------ the server

\* Which field of an analysis payload is set but no array ("ok": none).
Shapes == {"ok", "key_info", "identified_actions", "extracted_text"}

\* The conversation the server has stored for an analysis.
StoredConversation(id) ==
    <<[role |-> "user", content |-> "question", of |-> id],
      [role |-> "assistant", content |-> "answer", of |-> id]>>

\* The bodies an error response can have: no JSON, null, an object without
\* detail, with a detail string (possibly empty), with a list as detail.
ErrorBodies ==
    {[syntax |-> "invalid", detailKind |-> "absent", detail |-> "", value |-> EmptyObject],
     [syntax |-> "null", detailKind |-> "absent", detail |-> "", value |-> EmptyObject],
     [syntax |-> "object", detailKind |-> "absent", detail |-> "", value |-> EmptyObject],
     [syntax |-> "object", detailKind |-> "string", detail |-> "", value |-> EmptyObject],
     [syntax |-> "object", detailKind |-> "string", detail |-> "Not authenticated",
      value |-> EmptyObject],
     [syntax |-> "object", detailKind |-> "list", detail |-> "", value |-> EmptyObject]}

\* The error responses to a request whose usual failure has detail d; the
\* specification of apiCall follows every kind of error response.
Errors(d) ==
    IF scope = "api"
    THEN {[ok |-> FALSE,
           ctype |-> IF b.syntax = "invalid" THEN "text/html" ELSE "application/json",
           body |-> b] : b \in ErrorBodies}
    ELSE {ErrDetail(d)}

\* The success responses with JSON body v; the specification of apiCall
\* follows every content type.
Successes(v) ==
    IF scope = "api"
    THEN {[ok |-> TRUE, ctype |-> c, body |-> JsonBody(v)] :
              c \in {Null, "text/plain", "application/json",
                     "application/json; charset=utf-8"}}
    ELSE {OkJson(v)}

\* The specification of the views follows every malformed payload, that of
\* the loads one of them.
ShapesSent ==
    IF scope = "views" THEN Shapes
    ELSE IF scope = "load" THEN {"ok", "identified_actions"}
    ELSE {"ok"}

\* The text of a page of n characters, some of them escaped by escapeHTML.
SampleChars == <<"a", "&", "<", "b", ">", "'", "\"">>
PageText(n) == [i \in 1..n |-> SampleChars[((i - 1) % Len(SampleChars)) + 1]]

\* The documents: up to MaxPages pages of up to MaxText characters each.
Documents == UNION {[1..n -> {PageText(k) : k \in 0..MaxText}] : n \in 0..MaxPages}

\* The spans: a page (one of them beyond the document) and two offsets,
\* before, in and after the text, in either order.
Spans ==
    [page_index : 0..(MaxPages - 1), char_start : (0 - 1)..(MaxText + 1),
     char_end : (0 - 1)..(MaxText + 1)]

Highlights == UNION {[1..n -> Spans] : n \in 0..MaxSpans}

\* A page of twenty characters with three spans, two of them overlapping.
ExampleText == PageText(20)
ExampleHighlights ==
    <<[page_index |-> 0, char_start |-> 2, char_end |-> 5],
      [page_index |-> 0, char_start |-> 4, char_end |-> 8],
      [page_index |-> 0, char_start |-> 10, char_end |-> 12]>>

\* The texts of the action items of an analysis.
ActionTexts == <<"pay the rent", "give notice", "renew">>

AnalysisJson(id) ==
    IF scope = "results"
    THEN {[kind |-> "object", id |-> id, shape |-> "ok",
           identified_actions |-> [i \in 1..MaxActions |-> [text |-> ActionTexts[i]]],
           filename |-> <<"lease", "PDF">>],
          [kind |-> "object", id |-> id, shape |-> "ok",
           identified_actions |-> <<>>, filename |-> <<"lease", "txt">>],
          [kind |-> "object", id |-> id, shape |-> "ok",
           identified_actions |-> <<>>, filename |-> <<"scan", "pdf">>,
           page_images |-> <<"page1.png">>],
          [kind |-> "object", id |-> id, shape |-> "identified_actions"]}
    ELSE IF scope = "highlight"
    THEN {[kind |-> "object", id |-> id, shape |-> "ok",
           extracted_text |-> d, risk_highlights |-> h] :
              d \in Documents, h \in Highlights}
         \cup {[kind |-> "object", id |-> id, shape |-> "ok",
                extracted_text |-> <<ExampleText>>, risk_highlights |-> ExampleHighlights]}
    ELSE {[kind |-> "object", id |-> id, shape |-> sh, filename |-> <<"lease", "txt">>,
           conversation |-> StoredConversation(id)] : sh \in ShapesSent}

Ascending(l) == \A i \in 1..(Len(l) - 1) : l[i].id < l[i + 1].id

\* The file names and creation dates of the items, and what is typed into the
\* search box.
Filenames == {<<"a">>, <<"A">>, <<"b">>, <<"a", "b">>, <<"B", "a">>}
Dates == {<<"1">>, <<"2">>, <<"1", "2">>}
Searches == {<<>>, <<"a">>, <<"A">>, <<"b">>, <<"a", "b">>, <<"z">>}
SortValues == {"", "date_desc", "date_asc", "alpha_asc", "alpha_desc", "risk"}

\* The items of an analysis in a dashboard answer: only the specification of
\* the list follows file names and creation dates, either of which can be missing.
ItemsOf(id) ==
    IF scope = "list"
    THEN {[id |-> id]}
         \cup {[id |-> id, filename |-> f] : f \in Filenames}
         \cup {[id |-> id, created_at |-> d] : d \in Dates}
         \cup {[id |-> id, filename |-> f, created_at |-> d] : f \in Filenames, d \in Dates}
    ELSE {[id |-> id]}

\* The lists GET /analyses/dashboard can answer with.
DashboardLists ==
    IF scope = "results" THEN {<<[id |-> 1]>>}
    ELSE
    {l \in UNION {[1..n -> UNION {ItemsOf(id) : id \in AnalysisIds}] : n \in 0..MaxId} :
        Ascending(l)}

\* The dates of the events: none, the empty text, two texts that are no dates
\* (one with a hyphen), two days, a date with its time and a date written
\* without hyphens.
EventDates ==
    {<<>>,
     <<"t", "b", "a">>,
     <<"a", "-", "b">>,
     <<"2", "0", "2", "5", "-", "0", "3", "-", "0", "1">>,
     <<"2", "0", "2", "4", "-", "1", "2", "-", "3", "1">>,
     <<"2", "0", "2", "5", "-", "0", "3", "-", "0", "1",
       "T", "1", "0", ":", "0", "0", ":", "0", "0", "Z">>,
     <<"M", "a", "r", " ", "1", " ", "2", "0", "2", "5">>}

EventKinds == {"payment_due", "action_required", "key_date", "renewal"}

EventLabels == {<<>>, <<"R", "&", "D">>}

\* The events of a timeline: with or without date, kind and label, the date
\* empty, no date or a day.
Events(id) ==
    LET dates == {d \in EventDates : Len(d) = 0 \/ Len(d) = 3 \/ IsIsoDate(d)}
    IN  {[id |-> id]}
        \cup {[id |-> id, date |-> d, kind |-> k, label |-> l] :
                 d \in dates, k \in EventKinds, l \in EventLabels}
        \cup {[id |-> id, date |-> d, label |-> l] : d \in dates, l \in EventLabels}

\* The lists of events /timeline can answer with: none, one event of any
\* kind, or MaxEvents events that differ in their dates.
EventLists ==
    IF scope = "events"
    THEN {<<>>} \cup {<<ev>> : ev \in Events(1)}
         \cup {[i \in 1..MaxEvents |-> [id |-> i, date |-> ds[i], label |-> <<"R", "&", "D">>]] :
                  ds \in [1..MaxEvents -> EventDates]}
    ELSE {<<>>, <<[id |-> 1]>>}

TimelineJson(id) ==
    {[kind |-> "object", of |-> id, lifecycle_summary |-> ls, unavailable |-> FALSE,
      events |-> l] : ls \in IF scope = "events" THEN {TRUE} ELSE BOOLEAN, l \in EventLists}

\* The backend's answer to a /query request.
AnswerTo(e) == OkJson([kind |-> "object", answer |-> "answer to " \o e.req.body.question])

\* The responses the backend can give to a request in flight.
Responses(e) ==
    CASE e.k = "dashboard" ->
            UNION {Successes([kind |-> "array", items |-> l]) : l \in DashboardLists}
            \cup (IF scope = "results" THEN {}
                  ELSE {OkJson(EmptyObject)} \cup Errors("Could not validate credentials"))
      [] e.k = "load" ->
            {OkJson(v) : v \in AnalysisJson(e.id)}
            \cup {OkNoJson, ErrDetail("Analysis not found")}
      [] e.k = "analyze" ->
            {OkJson([kind |-> "object", id |-> i, shape |-> sh,
                     filename |-> <<"lease", "txt">>]) :
                i \in AnalysisIds, sh \in ShapesSent}
            \cup {OkNoJson, ErrDetail("Analysis failed")}
      [] e.k = "delete" ->
            {OkJson(EmptyObject), OkNoJson, ErrDetail("Analysis not found")}
      [] e.k = "login" ->
            Successes([kind |-> "object", access_token |-> "tok1"])
            \cup Errors("Incorrect email or password")
      [] e.k = "export" ->
            {[ok |-> TRUE, ctype |-> "application/pdf",
              body |-> [syntax |-> "invalid", detailKind |-> "absent", detail |-> "",
                        value |-> EmptyObject]]}
            \cup Errors("Analysis not found")
      [] e.k = "query" -> {AnswerTo(e), ErrDetail("Query failed")}
      [] e.k = "timeline_list" ->
            {OkJson(v) : v \in TimelineJson(e.id)}
            \cup {ErrDetail("Timeline not found")}
      [] e.k \in {"timeline_gen_try", "timeline_gen_catch"} ->
            {OkJson(v) : v \in TimelineJson(e.id)}
            \cup {ErrDetail("Timeline generation failed")}
      [] e.k = "reminder" -> {OkJson(EmptyObject), ErrDetail("Reminder failed")}
      [] e.k = "eli5" ->
            {OkJson([kind |-> "object", answer |-> "in simple words"]),
             OkJson(EmptyObject), ErrDetail("Query failed")}

\* ------------------------------------------------------------- actions

Commit(w) ==
    /\ UNCHANGED scope
    /\ appState' = w.app
    /\ dom' = w.dom
    /\ localStorage' = w.ls
    /\ inflight' = w.net

\* A user event that starts no load.
User(w) == Commit(w) /\ UNCHANGED <<lastLoad, lastCall>>

\* The confirmation modal and the chat popup cover the page while they are open.
Clickable == dom.confirm = 0 /\ ~dom.popupOpen

\* no call of apiCall has returned yet
NoCall == [made |-> FALSE, resp |-> OkNoJson, result |-> Return(EmptyObject)]

InitIn(sc) ==
    /\ scope = sc
    /\ appState = init(EmptyStorage).app
    /\ dom = init(EmptyStorage).dom
    /\ localStorage = init(EmptyStorage).ls
    /\ inflight = init(EmptyStorage).net
    /\ lastLoad = 0
    /\ lastCall = NoCall

Init == InitIn("views")

\* The page is loaded again: the script state and the document start afresh,
\* responses to the old page's requests are never delivered.
Reload ==
    /\ Commit(init(localStorage))
    /\ lastLoad' = IF init(localStorage).net # <<>> /\ init(localStorage).net[1].k = "load"
                   THEN init(localStorage).net[1].id ELSE 0
    /\ UNCHANGED lastCall

\* #show-register, #show-login
ClickShowAuth ==
    /\ Clickable
    /\ \E st \in {"register", "login"} : User(showState(World, st))

\* #logout-button
ClickLogout == Clickable /\ User(logout(World))

\* #show-upload, #nav-to-upload
ClickShowUpload == Clickable /\ User(showState(resetUpload(World), "upload"))

\* #try-again-button, #analyze-another-button
ClickTryAgain == Clickable /\ User(showState(World, "upload"))

\* #back-to-dashboard, #nav-to-dashboard
ClickToDashboard == Clickable /\ CanSend /\ User(updateDashboard(World))

\* The files the user picks, each name as its dot-separated parts; the
\* specification of the upload picks among more names.
Files ==
    IF scope = "upload"
    THEN {<<"contract", "PDF">>, <<"setup", "exe">>, <<"notes", "v2", "txt">>,
          <<"archive", "">>, <<"README">>, <<"pdf">>}
    ELSE {<<"contract", "PDF">>, <<"setup", "exe">>}

\* change event of the file input
SelectFile == Clickable /\ \E file \in Files : User(handleFileSelect(World, file))

\* #remove-file-button
ClickRemoveFile == Clickable /\ User(resetUpload(World))

\* click on #analyze-button, up to the await
ClickAnalyze ==
    /\ Clickable /\ CanSend
    /\ ~dom.analyzeDisabled
    /\ appState.selectedFile # NoFile
    /\ User(send(showState(World, "loading"), "analyze", 0,
                 [method |-> "POST", endpoint |-> "/analyze",
                  headers |-> apiHeaders(appState.token, TRUE),
                  document |-> appState.selectedFile], {}))

RowShown(id) == ~dom.hidden["dashboard"] /\ id \in dom.rows

\* click on a row's open button
ClickRow ==
    /\ Clickable /\ CanSend
    /\ \E id \in AnalysisIds :
        /\ RowShown(id)
        /\ Commit(loadAnalysis(World, id))
        /\ lastLoad' = id
        /\ UNCHANGED lastCall

\* click on a row's export button (a disabled button takes no click)
ClickExport ==
    /\ Clickable /\ CanSend
    /\ Len(dom.timers) < MaxPending
    /\ \E id \in AnalysisIds :
        /\ RowShown(id)
        /\ ~dom.exportBtn[id].disabled
        /\ User(exportAnalysisPDF(World, id))

\* a timer set by exportAnalysisPDF fires: the button gets back the content the
\* timer holds and is enabled
ExportTimer ==
    \E i \in 1..Len(dom.timers) :
        User([World EXCEPT !.dom.exportBtn[dom.timers[i].id] =
                               [label |-> dom.timers[i].content, disabled |-> FALSE],
                           !.dom.timers = Remove(@, i)])

Questions == {"q1", "q2"}

\* click on #co-fab
OpenChatPopup ==
    /\ Clickable
    /\ ~dom.coFabHidden
    /\ User(openChatPopup(World))

\* #co-close or a click on the popup's backdrop
ClosePopup ==
    /\ dom.popupOpen
    /\ User([World EXCEPT !.dom.popupOpen = FALSE, !.dom.popupLog = <<>>])

\* submit of the popup's form
SubmitPopupQuery ==
    /\ dom.popupOpen /\ CanSend
    /\ dom.asked < MaxAsk
    /\ \E q \in Questions : User(popupSubmit(World, q))

\* submit of the in-panel #query-form
SubmitPanelQuery ==
    /\ Clickable /\ CanSend
    /\ ~dom.hidden["results"]
    /\ dom.asked < MaxAsk
    /\ \E q \in Questions : User(handleQuery(World, q))

\* click on a row's delete button: showConfirmation
ClickDelete ==
    /\ Clickable
    /\ \E id \in AnalysisIds :
        /\ RowShown(id)
        /\ User([World EXCEPT !.dom.confirm = id])

\* hideModal of showConfirmation: the modal fades and is removed 300 ms later
hideModal(w) == [w EXCEPT !.dom.confirmFading = TRUE]

\* #confirm-ok: hideModal, then onConfirm up to its await
ConfirmOk ==
    /\ dom.confirm # 0 /\ CanSend
    /\ User(send(hideModal(World), "delete", dom.confirm,
                 apiRequest(appState.token, "DELETE",
                            "/analyses/" \o idString(dom.confirm), FALSE), {}))

\* #confirm-cancel or a click on the backdrop: hideModal, no onCancel was given
ConfirmCancel ==
    /\ dom.confirm # 0
    /\ User(hideModal(World))

\* the timer of hideModal: the modal leaves the document
ModalRemoved ==
    /\ dom.confirm # 0 /\ dom.confirmFading
    /\ User([World EXCEPT !.dom.confirm = 0, !.dom.confirmFading = FALSE])

\* submit of the login form, up to the await
SubmitLogin ==
    /\ Clickable /\ CanSend
    /\ User(send(World, "login", 0,
                 apiRequest(appState.token, "POST", "/token", TRUE), {}))

\* the input event of #dashboard-search
TypeSearch ==
    \E q \in Searches :
        /\ Clickable
        /\ ~dom.hidden["dashboard"]
        /\ q # dom.search
        /\ LET w == [World EXCEPT !.dom.search = q]
           IN  User(IF dom.controlsBound THEN renderDashboardList(w) ELSE w)

\* the change event of #dashboard-sort
ChangeSort ==
    \E v \in SortValues :
        /\ Clickable
        /\ ~dom.hidden["dashboard"]
        /\ v # dom.sort
        /\ LET w == [World EXCEPT !.dom.sort = v]
           IN  User(IF dom.controlsBound THEN renderDashboardList(w) ELSE w)

\* #tab-timeline in the results container
ClickTabTimeline ==
    /\ Clickable /\ CanSend
    /\ ~dom.hidden["results"]
    /\ User(fetchTimeline([World EXCEPT !.dom.panel = "timeline",
                                        !.dom.timelineVisited = TRUE]))

\* #tab-analysis in the results container
ClickTabAnalysis ==
    /\ Clickable
    /\ ~dom.hidden["results"]
    /\ User([World EXCEPT !.dom.panel = "analysis"])

\* ----------------------------------------------------- response handlers

\* A response arrives: apiCall returns or throws and the handler that awaits it
\* resumes.  The specification of apiCall keeps the call as history.
Resumes(i, resp, w) ==
    /\ Commit(w)
    /\ UNCHANGED lastLoad
    /\ lastCall' = IF scope = "api"
                   THEN [made |-> TRUE, resp |-> resp, result |-> apiCallResult(resp)]
                   ELSE lastCall

\* updateDashboard after its await
DashboardResponseAt(i, resp) ==
    /\ inflight[i].k = "dashboard"
    /\ LET r == apiCallResult(resp)
           items == IF r.value.kind = "array" THEN r.value.items ELSE <<>>
       IN  IF r.threw THEN Resumes(i, resp, Taken(i))
           ELSE Resumes(i, resp,
                    [renderDashboardList(
                         [supersede(Taken(i), i) EXCEPT !.app.dashboardItems = items])
                        EXCEPT !.dom.controlsBound = TRUE])

DashboardResponse ==
    \E i \in 1..Len(inflight) : \E resp \in Responses(inflight[i]) :
        DashboardResponseAt(i, resp)

\* loadAnalysis that drops the response of a load that is not the latest one
loadAnalysisLatestOnly(w, e, r) ==
    IF e.id # lastLoad THEN w
    ELSE IF r.threw THEN showError(w, r.message)
    ELSE LET data == r.value
             ia == [id |-> Field(data, "id", 0), shape |-> Field(data, "shape", "ok"),
                    extracted_text |-> Field(data, "extracted_text", <<>>),
                    risk_highlights |-> Field(data, "risk_highlights", <<>>),
                    identified_actions |-> Field(data, "identified_actions", <<>>),
                    filename |-> Field(data, "filename", <<>>),
                    page_images |-> Field(data, "page_images", <<>>)]
             out == renderResults(w, ia)
         IN  IF out.threw THEN showError(out.w, out.message)
             ELSE [fetchTimeline(out.w) EXCEPT
                      !.app.conversationHistory = Field(data, "conversation", <<>>)]

\* loadAnalysis after its await
loadAnalysisResumed(w, e, r) ==
    IF r.threw THEN showError(w, r.message)
    ELSE LET data == r.value
             ia == [id |-> Field(data, "id", 0), shape |-> Field(data, "shape", "ok"),
                    extracted_text |-> Field(data, "extracted_text", <<>>),
                    risk_highlights |-> Field(data, "risk_highlights", <<>>),
                    identified_actions |-> Field(data, "identified_actions", <<>>),
                    filename |-> Field(data, "filename", <<>>),
                    page_images |-> Field(data, "page_images", <<>>)]
             out == renderResults(w, ia)
         IN  IF out.threw THEN showError(out.w, out.message)
             ELSE [fetchTimeline(out.w) EXCEPT
                      !.app.conversationHistory = Field(data, "conversation", <<>>)]

LoadResponseAt(i, resp) ==
    /\ inflight[i].k = "load"
    /\ Resumes(i, resp, loadAnalysisResumed(Taken(i), inflight[i], apiCallResult(resp)))

LoadResponse ==
    \E i \in 1..Len(inflight) : \E resp \in Responses(inflight[i]) : LoadResponseAt(i, resp)

\* the analyze button's click handler after its await
analyzeResumed(w, r) ==
    IF r.threw THEN showError(w, r.message)
    ELSE LET data == [id |-> Field(r.value, "id", 0),
                      shape |-> Field(r.value, "shape", "ok"),
                      extracted_text |-> Field(r.value, "extracted_text", <<>>),
                      risk_highlights |-> Field(r.value, "risk_highlights", <<>>),
                      identified_actions |-> Field(r.value, "identified_actions", <<>>),
                      filename |-> Field(r.value, "filename", <<>>),
                      page_images |-> Field(r.value, "page_images", <<>>)]
             out == renderResults(w, data)
         IN  IF out.threw THEN showError(out.w, out.message)
             ELSE fetchTimeline(out.w)

AnalyzeResponseAt(i, resp) ==
    /\ inflight[i].k = "analyze"
    /\ Resumes(i, resp, analyzeResumed(Taken(i), apiCallResult(resp)))

AnalyzeResponse ==
    \E i \in 1..Len(inflight) : \E resp \in Responses(inflight[i]) :
        AnalyzeResponseAt(i, resp)

Without(seq, gone) ==
    LET F[k \in 0..Len(seq)] ==
            IF k = 0 THEN <<>>
            ELSE IF seq[k].id = gone THEN F[k - 1] ELSE Append(F[k - 1], seq[k])
    IN  F[Len(seq)]

\* onConfirm that removes the item whatever the server answered
deleteResumedOptimistic(w, id, r) ==
    showNotification(
        renderDashboardList([w EXCEPT !.app.dashboardItems = Without(@, id)]),
        IF r.threw THEN "Failed to delete analysis." ELSE "Analysis deleted successfully.")

\* the delete confirmation's onConfirm after its await
deleteResumed(w, id, r) ==
    IF r.threw THEN showNotification(w, "Failed to delete analysis.")
    ELSE showNotification(
             renderDashboardList(
                 [deletedMeanwhile(w, id) EXCEPT !.app.dashboardItems = Without(@, id)]),
             "Analysis deleted successfully.")

DeleteResponseAt(i, resp) ==
    /\ inflight[i].k = "delete"
    /\ Resumes(i, resp, deleteResumed(Taken(i), inflight[i].id, apiCallResult(resp)))

DeleteResponse ==
    \E i \in 1..Len(inflight) : \E resp \in Responses(inflight[i]) : DeleteResponseAt(i, resp)

\* the message of the error exportAnalysisPDF throws on an error response
exportErrorMessage(resp) ==
    IF resp.body.syntax = "invalid" THEN SyntaxErrorMessage
    ELSE IF resp.body.syntax = "null" THEN NullDetailMessage
    ELSE IF resp.body.detailKind = "string" /\ resp.body.detail # "" THEN resp.body.detail
    ELSE IF resp.body.detailKind = "list" THEN "[object Object]"
    ELSE "Export failed"

\* exportAnalysisPDF after its await: the download and the button's success
\* label with its timer, or the catch block's notification and reset of the
\* button now in the document
exportResumed(w, e, resp) ==
    IF ~resp.ok
    THEN LET w1 == showNotification(w, "Export failed: " \o exportErrorMessage(resp))
         IN  IF e.id \in w1.dom.rows
             THEN [w1 EXCEPT !.dom.exportBtn[e.id] = FreshButton]
             ELSE w1
    ELSE LET w1 == [w EXCEPT !.dom.downloaded =
                                 "analysis_" \o idString(e.id) \o "_export.pdf"]
             originalContent == w1.dom.exportBtn[e.id].label
         IN  IF e.btn
             THEN [w1 EXCEPT !.dom.exportBtn[e.id].label = "Exported!",
                             !.dom.timers =
                                 Append(@, [id |-> e.id, content |-> originalContent])]
             ELSE w1

ExportResponse ==
    \E i \in 1..Len(inflight) : \E resp \in Responses(inflight[i]) :
        /\ inflight[i].k = "export"
        /\ User(exportResumed(Taken(i), inflight[i], resp))

\* handleQuery after its await
handleQueryResumed(w, e, r) ==
    IF r.threw THEN replaceThinking(w, e.thinkingId, ErrorBubble(r.message, e.thinkingId))
    ELSE LET answer == Field(r.value, "answer", "")
             shown == replaceThinking(w, e.thinkingId, AnswerBubble(answer, e.thinkingId))
             user == IF e.popup THEN <<>>
                     ELSE <<[role |-> "user", content |-> e.req.body.question, of |-> e.id]>>
         IN  [shown EXCEPT !.app.conversationHistory =
                 @ \o user \o <<[role |-> "assistant", content |-> answer, of |-> e.id]>>]

QueryResponseAt(i, resp) ==
    /\ inflight[i].k = "query"
    /\ Resumes(i, resp, handleQueryResumed(Taken(i), inflight[i], apiCallResult(resp)))

QueryResponse ==
    \E i \in 1..Len(inflight) : \E resp \in Responses(inflight[i]) : QueryResponseAt(i, resp)

\* login after its await
loginResumed(w, r) ==
    IF r.threw THEN showNotification(w, "Login failed: " \o r.message)
    ELSE updateDashboard(
             [w EXCEPT !.app.token = Field(r.value, "access_token", Undefined),
                       !.ls.chimeraToken = Field(r.value, "access_token", Undefined)])

LoginResponse ==
    \E i \in 1..Len(inflight) : \E resp \in Responses(inflight[i]) :
        /\ inflight[i].k = "login"
        /\ Resumes(i, resp, loginResumed(Taken(i), apiCallResult(resp)))

\* fetchTimeline after the listing request: render, or request generation from
\* the try block (no events) or from the catch block (the listing failed)
timelineListResumed(w, e, r) ==
    IF r.threw
    THEN generateTimeline(w, "timeline_gen_catch", e.failed \cup {Sent(e.req)}, e.id)
    ELSE IF Field(r.value, "events", <<>>) = <<>>
    THEN generateTimeline(w, "timeline_gen_try", e.failed, e.id)
    ELSE renderTimeline(w, r.value)

TimelineListResponseAt(i, resp) ==
    /\ inflight[i].k = "timeline_list"
    /\ Resumes(i, resp, timelineListResumed(Taken(i), inflight[i], apiCallResult(resp)))

TimelineListResponse ==
    \E i \in 1..Len(inflight) : \E resp \in Responses(inflight[i]) :
        TimelineListResponseAt(i, resp)

\* fetchTimeline after a generation request: one sent from the try block that
\* fails lands in the catch block, which sends the generation request
timelineGenResumed(w, e, r) ==
    IF ~r.threw THEN renderTimeline(w, r.value)
    ELSE IF e.k = "timeline_gen_try"
    THEN generateTimeline(w, "timeline_gen_catch", e.failed \cup {Sent(e.req)}, e.call)
    ELSE renderTimeline(w, TimelineUnavailable)

TimelineGenResponseAt(i, resp) ==
    /\ inflight[i].k \in {"timeline_gen_try", "timeline_gen_catch"}
    /\ Resumes(i, resp, timelineGenResumed(Taken(i), inflight[i], apiCallResult(resp)))

TimelineGenResponse ==
    \E i \in 1..Len(inflight) : \E resp \in Responses(inflight[i]) :
        TimelineGenResponseAt(i, resp)

\* The view machine: navigation, file selection, analysing, loading, rendering,
\* logout, page reload.
Next ==
    \/ Reload
    \/ ClickShowAuth
    \/ ClickLogout
    \/ ClickShowUpload
    \/ ClickTryAgain
    \/ ClickToDashboard
    \/ SelectFile
    \/ ClickRemoveFile
    \/ ClickAnalyze
    \/ ClickRow
    \/ DashboardResponse
    \/ LoadResponse
    \/ AnalyzeResponse

Spec == Init /\ [][Next]_vars

\* ------------------------------------------------------ claims: the views

View == Visible(dom)

Panes(d) == {d.assessment, d.keyInfo, d.actions, d.pages}

\* The results view shows analysis id in every pane.
ShowingResultsOf(id) ==
    /\ View = {"results"}
    /\ Panes(dom) = {id}
    /\ appState.currentAnalysis.id = id

\* C1: in every reachable state exactly one of the containers dashboard, upload,
\* loading, error, results is visible, login, register and landing never are, and
\* the Clause Oracle button is visible exactly when results is the visible one.
C1_ExactlyOneViewVisible ==
    /\ Cardinality(View) = 1
    /\ View \subseteq {"dashboard", "upload", "loading", "error", "results"}
    /\ (~dom.coFabHidden) <=> (~dom.hidden["results"])

\* showState('results') has shown the results of analysis 2
C1_Witness ==
    /\ View = {"results"}
    /\ ~dom.coFabHidden
    /\ dom.navToUploadHidden = FALSE /\ dom.navToDashboardHidden = FALSE
    /\ appState.currentAnalysis.id = 2

\* C2: whenever the results container is visible, the assessment, the key-info
\* list, the action list and the pages shown are all those of the one analysis in
\* appState.currentAnalysis.
C2_ResultsShowCurrentAnalysis ==
    (~dom.hidden["results"]) => Panes(dom) = {appState.currentAnalysis.id}

\* results of analysis 2 are showing while a load of analysis 1 is still in flight
C2_Witness ==
    /\ ShowingResultsOf(2)
    /\ \E i \in 1..Len(inflight) : inflight[i].k = "load" /\ inflight[i].id = 1

\* C3: a response to the load of an analysis that is no longer the one requested
\* last is rendered all the same: when it is a success it replaces whatever is
\* shown by the results of its own analysis.
C3_StaleLoadOverwrites ==
    [][\A id \in AnalysisIds : \A i \in 1..Len(inflight) :
          ( /\ inflight[i].k = "load" /\ inflight[i].id = id /\ id # lastLoad
            /\ \E v \in AnalysisJson(id) : v.shape = "ok" /\ LoadResponseAt(i, OkJson(v)) )
          => ShowingResultsOf(id)']_vars

\* analysis 1 was loaded and is showing, no load is pending, and the load
\* requested last was that of analysis 2
C3_Witness ==
    /\ ShowingResultsOf(1)
    /\ appState.conversationHistory = StoredConversation(1)
    /\ lastLoad = 2
    /\ \A i \in 1..Len(inflight) : inflight[i].k # "load"

\* the only request in flight is the load of analysis id
OnlyLoading(net, id) == Len(net) = 1 /\ net[1].k = "load" /\ net[1].id = id

\* the only request in flight is the dashboard listing
OnlyListing(net) == Len(net) = 1 /\ net[1].k = "dashboard"

\* C4 as amended: the persisted page name is always the name of the visible
\* view, and while results of an analysis that has an id are showing the
\* persisted analysis id is that id.  A reload from upload shows upload; a
\* reload from results starts the load of the persisted id, which is the id of
\* the analysis on display when that analysis has one, and shows the dashboard
\* when no id is persisted; a reload from dashboard, loading or error shows the
\* dashboard.
C4_ReloadRestoresPersistedView ==
    [][ /\ View' = {localStorage'.chimeraPage}
        /\ (View' = {"results"} /\ appState'.currentAnalysis.id # 0)
              => localStorage'.chimeraAnalysisId = idString(appState'.currentAnalysis.id)
        /\ Reload =>
              IF View = {"upload"} THEN View' = {"upload"} /\ inflight' = <<>>
              ELSE IF View = {"results"} /\ appState.currentAnalysis.id # 0
              THEN View' = {"loading"} /\ OnlyLoading(inflight', appState.currentAnalysis.id)
              ELSE IF View = {"results"} /\ localStorage.chimeraAnalysisId # Null
              THEN /\ View' = {"loading"}
                   /\ OnlyLoading(inflight', parseInt(localStorage.chimeraAnalysisId))
              ELSE View' = {"dashboard"} /\ OnlyListing(inflight')
      ]_vars

\* the page was reloaded while the results of analysis 2 were showing: the
\* script state is fresh and analysis 2 is being loaded
C4_Witness ==
    /\ View = {"loading"}
    /\ OnlyLoading(inflight, 2)
    /\ localStorage.chimeraAnalysisId = "2"
    /\ appState = FreshAppState
    /\ dom.rows = {} /\ Panes(dom) = {0}
    /\ lastLoad = 2

\* C4 as claimed: a reload from upload, dashboard or results restores that same
\* view, results being those of the analysis displayed before the reload.
C4_ReloadRestoresSameView ==
    [][Reload =>
          /\ View = {"upload"} => View' = {"upload"}
          /\ View = {"dashboard"} => View' = {"dashboard"}
          /\ View = {"results"} =>
                View' = {"loading"} /\ OnlyLoading(inflight', appState.currentAnalysis.id)
      ]_vars

\* ------------------------------------------------- claims: the session

InitAuth == InitIn("auth")

\* Login and logout, with the dashboard and the analyses opened from it.
NextAuth ==
    \/ SubmitLogin
    \/ LoginResponse
    \/ ClickLogout
    \/ ClickToDashboard
    \/ DashboardResponse
    \/ ClickRow
    \/ LoadResponse
    \/ Reload

SpecAuth == InitAuth /\ [][NextAuth]_vars

\* C5: when logout returns, appState.token is absent, the persisted token is
\* removed, the dashboard container is the visible one and the results
\* container is hidden.
C5_LogoutPostState ==
    [][ClickLogout =>
          /\ appState'.token = Null
          /\ localStorage'.chimeraToken = Null
          /\ View' = {"dashboard"}
          /\ dom'.hidden["results"]
      ]_vars

\* logged out from the results of analysis 2 of a logged-in session, with a
\* request of that session still in flight
C5_Witness ==
    /\ View = {"dashboard"}
    /\ appState.token = Null /\ localStorage.chimeraToken = Null
    /\ appState.currentAnalysis.id = 2 /\ Panes(dom) = {2}
    /\ \E i \in 1..Len(inflight) : inflight[i].req.headers.Authorization = "Bearer tok1"

\* C6 as amended: logout removes the persisted token, the persisted page name
\* becomes 'dashboard', and the persisted analysis id stays as it was.
C6_LogoutKeepsAnalysisId ==
    [][ClickLogout =>
          localStorage' = [localStorage EXCEPT !.chimeraToken = Null,
                                               !.chimeraPage = "dashboard"]
      ]_vars

\* logged out of a session in which analysis 1 was viewed, the session's
\* dashboard listing still in flight: the id of analysis 1 is still persisted
C6_Witness ==
    /\ appState.token = Null /\ localStorage.chimeraToken = Null
    /\ localStorage.chimeraPage = "dashboard"
    /\ localStorage.chimeraAnalysisId = "1"
    /\ appState.currentAnalysis.id = 1
    /\ Len(inflight) = 1 /\ inflight[1].k = "dashboard"
    /\ inflight[1].req.headers.Authorization = "Bearer tok1"

\* C6 as claimed: after logout none of the three persisted keys holds a value
\* from before the logout.
C6_LogoutClearsAllKeys ==
    [][ClickLogout =>
          /\ localStorage'.chimeraToken = Null
          /\ localStorage'.chimeraPage \in {Null, "dashboard"}
          /\ localStorage'.chimeraAnalysisId = Null
      ]_vars

\* ----------------------------------------------- claims: the dashboard

InitDash == InitIn("dashboard")

\* The dashboard list and the deletion of its items.
NextDash ==
    \/ ClickToDashboard
    \/ ClickShowUpload
    \/ DashboardResponse
    \/ ClickDelete
    \/ ConfirmOk
    \/ ConfirmCancel
    \/ ModalRemoved
    \/ DeleteResponse

SpecDash == InitDash /\ [][NextDash]_vars

Items(app) == {app.dashboardItems[i].id : i \in 1..Len(app.dashboardItems)}

\* the DELETE requests in flight, as a sequence
Deletes(net) == SelectSeq(net, LAMBDA e : e.k = "delete")

\* C7: an item leaves appState.dashboardItems, other than by the server's
\* listing replacing the list, only when the response to a DELETE for its id
\* arrives and is a success; a DELETE is sent only by Confirm in the dialog
\* opened for that id; Cancel and the backdrop send nothing and change nothing
\* but the dialog; a failed DELETE leaves the list as it was and shows the
\* error notification.
C7_DeleteOnlyAfterConfirmAndSuccess ==
    [][ /\ \A id \in Items(appState) \ Items(appState') :
              \/ DashboardResponse
              \/ \E i \in 1..Len(inflight) :
                    /\ inflight[i].k = "delete" /\ inflight[i].id = id
                    /\ \E resp \in Responses(inflight[i]) :
                          resp.ok /\ DeleteResponseAt(i, resp)
        /\ Len(Deletes(inflight')) > Len(Deletes(inflight)) =>
              /\ ConfirmOk
              /\ dom.confirm # 0
              /\ Deletes(inflight') = Append(Deletes(inflight),
                                             inflight'[Len(inflight')])
              /\ inflight'[Len(inflight')].id = dom.confirm
              /\ inflight'[Len(inflight')].req.method = "DELETE"
        /\ ConfirmCancel =>
              /\ appState' = appState /\ inflight' = inflight
              /\ localStorage' = localStorage
              /\ dom' = [dom EXCEPT !.confirmFading = TRUE]
        /\ \A i \in 1..Len(inflight) :
              (inflight[i].k = "delete" /\ DeleteResponseAt(i, ErrDetail("Analysis not found")))
                 => /\ appState'.dashboardItems = appState.dashboardItems
                    /\ dom'.rows = dom.rows
                    /\ dom'.notification = "Failed to delete analysis."
      ]_vars

\* analysis 1 was deleted after Confirm and the server's success, analysis 2 is
\* still listed
C7_Witness ==
    /\ appState.dashboardItems = <<[id |-> 2]>>
    /\ dom.rows = {2}
    /\ dom.notification = "Analysis deleted successfully."
    /\ dom.confirm = 0
    /\ inflight = <<>>

\* ------------------------------------------------ claims: the timeline

InitTimeline == InitIn("timeline")

\* Opening analyses and fetching their timelines.
NextTimeline ==
    \/ ClickToDashboard
    \/ DashboardResponse
    \/ ClickRow
    \/ LoadResponse
    \/ ClickTabTimeline
    \/ ClickTabAnalysis
    \/ TimelineListResponse
    \/ TimelineGenResponse

SpecTimeline == InitTimeline /\ [][NextTimeline]_vars

\* C8: nothing is retried automatically: no request in flight has the method
\* and endpoint of a request that already failed within the same user action.
C8_NothingRetried ==
    \A i \in 1..Len(inflight) : Sent(inflight[i].req) \notin inflight[i].failed

\* ---------------------------------------------------- claims: apiCall

InitApi == InitIn("api")

\* The calls of apiCall for the login and the dashboard listing, with every
\* kind of response.
NextApi ==
    \/ SubmitLogin
    \/ LoginResponse
    \/ ClickLogout
    \/ ClickToDashboard
    \/ DashboardResponse

SpecApi == InitApi /\ [][NextApi]_vars

\* whether an error body gives a detail, and the detail as a string
DetailGiven(body) ==
    body.syntax = "object" /\ body.detailKind = "string" /\ body.detail # ""

\* C9: on a response that is no success apiCall throws, and the error's
\* message is the body's detail, or 'An unknown error occurred' when the body
\* gives none, whatever the body is (a detail that is no string may be
\* rendered in any way); on a success it returns the parsed JSON when the
\* content type is JSON and an empty object otherwise.
C9_ApiCallContract ==
    lastCall.made =>
        IF ~lastCall.resp.ok
        THEN /\ lastCall.result.threw
             /\ DetailGiven(lastCall.resp.body)
                   => lastCall.result.message = lastCall.resp.body.detail
             /\ (~DetailGiven(lastCall.resp.body) /\ lastCall.resp.body.detailKind # "list")
                   => lastCall.result.message = UnknownError
        ELSE /\ ~lastCall.result.threw
             /\ lastCall.result.value =
                   IF lastCall.resp.ctype \in JsonTypes
                   THEN lastCall.resp.body.value ELSE EmptyObject

InitExport == InitIn("export")

\* The requests of a session: login, the dashboard listing, the PDF export.
NextExport ==
    \/ SubmitLogin
    \/ LoginResponse
    \/ ClickToDashboard
    \/ DashboardResponse
    \/ ClickExport
    \/ ExportResponse
    \/ ExportTimer

SpecExport == InitExport /\ [][NextExport]_vars

\* the Authorization header a request carries when the token is t
Bearer(t) == IF t \in {Null, Undefined, ""} THEN Null ELSE "Bearer " \o t

\* C10: a request that is sent carries the Authorization header
\* 'Bearer <token>' when appState holds a token and none when it holds none,
\* be it sent through apiCall or by the PDF export.
C10_AuthorizationIffToken ==
    [][ LET n == Len(inflight')
        IN  (n > 0 /\ \A i \in 1..Len(inflight) : inflight[i] # inflight'[n])
               => inflight'[n].req.headers.Authorization = Bearer(appState'.token)
      ]_vars

\* -------------------------------------------------- claims: the upload

InitUpload == InitIn("upload")

\* Selecting, removing and analysing files, with the views around it.
NextUpload ==
    \/ SelectFile
    \/ ClickRemoveFile
    \/ ClickShowUpload
    \/ ClickTryAgain
    \/ ClickAnalyze
    \/ AnalyzeResponse
    \/ ClickToDashboard
    \/ DashboardResponse
    \/ Reload

SpecUpload == InitUpload /\ [][NextUpload]_vars

\* the text after the last dot of the name, lower-cased, is an allowed extension
HasAllowedExtension(file) ==
    Len(file) >= 2 /\ LowerCase(file[Len(file)]) \in AllowedExtensions

\* C11: appState.selectedFile is absent or a file whose extension is one of
\* pdf, doc, docx, txt, rtf; the analyze button is enabled only while a file
\* is selected; every /analyze request carries a file with such an extension.
C11_OnlyAllowedFilesSelected ==
    /\ appState.selectedFile # NoFile => HasAllowedExtension(appState.selectedFile)
    /\ ~dom.analyzeDisabled => appState.selectedFile # NoFile
    /\ \A i \in 1..Len(inflight) :
          inflight[i].k = "analyze" => HasAllowedExtension(inflight[i].req.document)

\* ---------------------------------------------------- claims: the chat

InitChat == InitIn("chat")

\* Opening analyses and asking questions about them, in the popup and in the panel.
NextChat ==
    \/ ClickToDashboard
    \/ DashboardResponse
    \/ ClickRow
    \/ LoadResponse
    \/ OpenChatPopup
    \/ ClosePopup
    \/ SubmitPopupQuery
    \/ SubmitPanelQuery
    \/ QueryResponse

SpecChat == InitChat /\ [][NextChat]_vars

\* the turns handleQuery and the popup append
UserTurn(q, id) == [role |-> "user", content |-> q, of |-> id]
AssistantTurn(e) ==
    [role |-> "assistant", content |-> "answer to " \o e.req.body.question, of |-> e.id]

\* the popup's form is submitted with question q
AsksInPopup(q) == SubmitPopupQuery /\ User(popupSubmit(World, q))

\* C12: a question submitted through the popup appends exactly one user turn
\* with that question to appState.conversationHistory, and its successful
\* answer appends exactly one assistant turn, directly after that user turn.
C12_AssistantDirectlyAfterUser ==
    [][ /\ \A q \in Questions :
              AsksInPopup(q) =>
                 appState'.conversationHistory =
                    Append(appState.conversationHistory,
                           UserTurn(q, appState.currentAnalysis.id))
        /\ \A i \in 1..Len(inflight) :
              (inflight[i].k = "query" /\ inflight[i].popup
                 /\ QueryResponseAt(i, AnswerTo(inflight[i]))) =>
                 /\ appState'.conversationHistory =
                       Append(appState.conversationHistory, AssistantTurn(inflight[i]))
                 /\ appState.conversationHistory # <<>>
                 /\ appState.conversationHistory[Len(appState.conversationHistory)] =
                       UserTurn(inflight[i].req.body.question, inflight[i].id)
      ]_vars

\* C13: the history in the body of a /query request is the turns that precede
\* the question asked, which is carried in the question field only: the
\* request a submit sends carries the history as it was before the submit.
C13_HistorySentPrecedesQuestion ==
    [][ LET n == Len(inflight')
        IN  (n > 0 /\ inflight'[n].k = "query" /\ dom'.asked = dom.asked + 1
               /\ inflight'[n].thinkingId = dom'.asked)
               => /\ inflight'[n].req.body.question \in Questions
                  /\ inflight'[n].req.body.history = appState.conversationHistory
      ]_vars

\* the bubbles of log that are the element thinking-<n>
Placeholder(log, n) == {j \in 1..Len(log) : log[j].id = n}

\* C14: the 'Thinking...' placeholder of a question is in the chat log when
\* its request is sent; when the request settles and the chat log the
\* question was asked in is open (the popup, also after it was closed and
\* opened again, or the panel), that log shows the answer or the error bubble
\* in the placeholder's place and no 'Thinking...' for the question is left.
C14_PlaceholderReplaced ==
    [][ /\ LET n == Len(inflight')
           IN  (n > 0 /\ inflight'[n].k = "query" /\ dom'.asked = dom.asked + 1
                  /\ inflight'[n].thinkingId = dom'.asked)
                  => ThinkingBubble(dom'.asked) \in
                        {dom'.popupLog[j] : j \in 1..Len(dom'.popupLog)}
                        \cup {dom'.conversationLog[j] : j \in 1..Len(dom'.conversationLog)}
        /\ \A i \in 1..Len(inflight) :
              inflight[i].k = "query" =>
                 \A resp \in Responses(inflight[i]) :
                    QueryResponseAt(i, resp) =>
                       LET n == inflight[i].thinkingId
                           log == IF inflight[i].popup THEN dom'.popupLog
                                  ELSE dom'.conversationLog
                       IN  /\ \A j \in Placeholder(dom'.popupLog, n) :
                                 dom'.popupLog[j].kind # "thinking"
                           /\ \A j \in Placeholder(dom'.conversationLog, n) :
                                 dom'.conversationLog[j].kind # "thinking"
                           /\ (inflight[i].popup => dom.popupOpen) =>
                                 \E j \in Placeholder(log, n) :
                                    log[j].kind = IF resp.ok THEN "answer" ELSE "error"
      ]_vars

\* ------------------------------------------ claims: the timeline tab

\* C15: after a results render only the first visit to the timeline tab sends
\* a timeline request; a later visit sends none and leaves the rendered
\* timeline as it is.
C15_TimelineFetchedOncePerRender ==
    [][ClickTabTimeline =>
          IF dom.timelineVisited
          THEN inflight' = inflight /\ dom'.timeline = dom.timeline
          ELSE /\ Len(inflight') = Len(inflight) + 1
               /\ inflight'[Len(inflight')].k = "timeline_list"
      ]_vars

\* the request in flight last is a generation request for analysis id
GenerationSent(net, id) ==
    /\ net # <<>>
    /\ net[Len(net)].k \in {"timeline_gen_try", "timeline_gen_catch"}
    /\ net[Len(net)].id = id
    /\ Sent(net[Len(net)].req) = <<"POST", "/timeline">>

\* the view, the error message and the notification are as they were
NothingRaised ==
    /\ dom'.hidden = dom.hidden
    /\ dom'.errorMessage = dom.errorMessage
    /\ dom'.notification = dom.notification

\* C16: fetchTimeline requests the events of the current analysis first; when
\* the listing has events it renders the listing and requests nothing; when
\* the listing has no events or fails it requests generation; a generated
\* timeline is rendered; when generation fails it renders the placeholder
\* summary with no events and requests nothing; the view stays as it is and
\* no error is shown.
C16_FetchTimelineFallback ==
    [][ /\ ClickTabTimeline =>
              /\ Len(inflight') = Len(inflight) + 1
              /\ inflight'[Len(inflight')].k = "timeline_list"
              /\ inflight'[Len(inflight')].id = appState.currentAnalysis.id
              /\ Sent(inflight'[Len(inflight')].req) =
                    <<"GET", "/timeline/" \o idString(appState.currentAnalysis.id)>>
        /\ \A i \in 1..Len(inflight) : \A resp \in Responses(inflight[i]) :
              /\ TimelineListResponseAt(i, resp) =>
                    /\ NothingRaised
                    /\ IF resp.ok /\ resp.body.value.events # <<>>
                       THEN /\ inflight' = Remove(inflight, i)
                            /\ dom'.timeline.eventsOf = resp.body.value.of
                       ELSE /\ Len(inflight') = Len(inflight)
                            /\ GenerationSent(inflight', appState.currentAnalysis.id)
                            /\ dom'.timeline = dom.timeline
              /\ TimelineGenResponseAt(i, resp) =>
                    /\ NothingRaised
                    /\ inflight' = Remove(inflight, i)
                    /\ IF resp.ok
                       THEN dom'.timeline.eventsOf =
                               IF resp.body.value.events # <<>> THEN resp.body.value.of ELSE 0
                       ELSE /\ dom'.timeline.unavailable
                            /\ dom'.timeline.eventsOf = 0
      ]_vars

\* ------------------------------------------------ claims: the highlights

\* The browser's last session ended on the results of an analysis.
InitHighlight ==
    \E id \in AnalysisIds :
        LET w == init([EmptyStorage EXCEPT !.chimeraPage = "results",
                                           !.chimeraAnalysisId = idString(id)])
        IN  /\ scope = "highlight"
            /\ appState = w.app
            /\ dom = w.dom
            /\ localStorage = w.ls
            /\ inflight = w.net
            /\ lastLoad = id
            /\ lastCall = NoCall

\* The analysis is loaded and rendered with its highlights.
NextHighlight ==
    \/ LoadResponse
    \/ Reload

SpecHighlight == InitHighlight /\ [][NextHighlight]_vars

\* the marked ranges of a paragraph, by the offsets of its marks in its text
MarkedRanges(nodes) ==
    {<<Len(textContent(SubSeq(nodes, 1, i - 1))), Len(textContent(SubSeq(nodes, 1, i)))>> :
        i \in {j \in 1..Len(nodes) : nodes[j].mark}}

\* the offsets of a text that a span of the page covers once clamped
Covered(text, list) ==
    {i \in 0..(Len(text) - 1) :
        \E j \in 1..Len(list) :
            Max(0, list[j].char_start) <= i /\ i < Min(Len(text), list[j].char_end)}

\* the maximal intervals of a set of offsets
MaximalIntervals(offsets) ==
    {<<a, b>> \in (offsets \X {i + 1 : i \in offsets}) :
        /\ a < b
        /\ \A i \in a..(b - 1) : i \in offsets
        /\ (a - 1) \notin offsets
        /\ b \notin offsets}

\* the text renderResults shows for page p of the current analysis
ShownText(p) ==
    IF appState.currentAnalysis.extracted_text[p] = <<>> THEN NoText
    ELSE appState.currentAnalysis.extracted_text[p]

\* C17: on every text page the marked ranges are exactly the maximal
\* intervals of the union of the page's spans clamped to the text (empty spans
\* give nothing, overlapping and adjacent spans one mark), each within the text,
\* and the plain and marked segments together are the page's text.
C17_MarksAreMergedSpans ==
    \A p \in 1..Len(dom.extracted) :
        LET list == matchesOfPage(appState.currentAnalysis.risk_highlights, p - 1)
        IN  /\ textContent(dom.extracted[p]) = ShownText(p)
            /\ MarkedRanges(dom.extracted[p]) = MaximalIntervals(Covered(ShownText(p), list))
            /\ \A r \in MarkedRanges(dom.extracted[p]) :
                  0 <= r[1] /\ r[1] < r[2] /\ r[2] <= Len(ShownText(p))
            /\ \A i \in 1..Len(dom.extracted[p]) : dom.extracted[p][i].text # <<>>

\* The twenty characters are shown with the marks (2,8) and (10,12).
C17_Witness ==
    /\ ~dom.hidden["results"]
    /\ appState.currentAnalysis.risk_highlights = ExampleHighlights
    /\ Len(dom.extracted) = 1
    /\ textContent(dom.extracted[1]) = ExampleText
    /\ MarkedRanges(dom.extracted[1]) = {<<2, 8>>, <<10, 12>>}
    /\ Len(dom.extracted[1]) = 5

\* C18: after a results render with precomputed risk highlights, each page
\* carries the mark of the first span given for it and no other: the spans
\* that follow it for the same page mark nothing.
C18_OnlyFirstSpanMarked ==
    \A p \in 1..Len(dom.extracted) :
        LET list == matchesOfPage(appState.currentAnalysis.risk_highlights, p - 1)
        IN  MarkedRanges(dom.extracted[p]) =
               MaximalIntervals(Covered(ShownText(p),
                                        IF list = <<>> THEN <<>> ELSE <<Head(list)>>))

\* ------------------------------------------------ claims: the dashboard list

InitList == InitIn("list")

\* The dashboard that init fetches is searched and sorted, before and after
\* the list arrives.
NextList ==
    \/ DashboardResponse
    \/ TypeSearch
    \/ ChangeSort

SpecList == InitList /\ [][NextList]_vars

\* the letters of the search text occur in the name in sequence, whatever their case
Occurs(search, name) ==
    \E k \in 0..(Len(name) - Len(search)) :
        \A j \in 1..Len(search) : lowerChar(name[k + j]) = lowerChar(search[j])

\* the items of appState.dashboardItems that the search box selects
Matching == SelectSeq(appState.dashboardItems,
                      LAMBDA i : Occurs(dom.search, Field(i, "filename", <<>>)))

\* the place of the item with this id in appState.dashboardItems
PlaceOf(id) == CHOOSE n \in 1..Len(appState.dashboardItems) : appState.dashboardItems[n].id = id

\* how the sort control orders two items: negative, zero (a tie) or positive
Order(a, b) ==
    IF dom.sort = "date_asc"
    THEN localeCompare(Field(a, "created_at", <<>>), Field(b, "created_at", <<>>))
    ELSE IF dom.sort = "alpha_asc"
    THEN localeCompare(Field(a, "filename", <<>>), Field(b, "filename", <<>>))
    ELSE IF dom.sort = "alpha_desc"
    THEN 0 - localeCompare(Field(a, "filename", <<>>), Field(b, "filename", <<>>))
    ELSE 0 - localeCompare(Field(a, "created_at", <<>>), Field(b, "created_at", <<>>))

\* C19: the rows shown are a permutation of the items the search selects, in
\* the order of the sort control (creation date or file name, ascending or
\* descending, a missing key counting as the empty string, creation date
\* descending for any other value of the control); items that tie keep their
\* order in appState.dashboardItems, which itself stays in the order the server
\* gave.
C19_ListSortedStably ==
    /\ Len(dom.listed) = Len(Matching)
    /\ \A i \in 1..Len(Matching) : \E j \in 1..Len(dom.listed) : dom.listed[j] = Matching[i]
    /\ \A i, j \in 1..Len(dom.listed) :
          i < j => /\ Order(dom.listed[i], dom.listed[j]) <= 0
                   /\ Order(dom.listed[i], dom.listed[j]) = 0
                         => PlaceOf(dom.listed[i].id) < PlaceOf(dom.listed[j].id)
    /\ Ascending(appState.dashboardItems)

\* Two items are shown by file name, the second of the server's list first.
C19_Witness ==
    /\ dom.sort = "alpha_asc"
    /\ Len(appState.dashboardItems) = 2
    /\ Len(dom.listed) = 2
    /\ dom.listed[1] = appState.dashboardItems[2]
    /\ "filename" \notin DOMAIN dom.listed[1]
    /\ Field(dom.listed[2], "filename", <<>>) = <<"B", "a">>

\* C20: the rows shown are those of the items whose file name contains the
\* search text, whatever the case of either (all items when the search box is
\* empty); when there are items and none of them matches, the empty-state
\* message is shown and no row.
C20_ListShowsMatches ==
    /\ {dom.listed[j] : j \in 1..Len(dom.listed)} = {Matching[i] : i \in 1..Len(Matching)}
    /\ dom.rows = {Matching[i].id : i \in 1..Len(Matching)}
    /\ dom.search = <<>> => Len(dom.listed) = Len(appState.dashboardItems)
    /\ (appState.dashboardItems # <<>> /\ Matching = <<>>) => dom.emptyState
    /\ dom.emptyState => dom.listed = <<>> /\ dom.rows = {}

\* "A" is searched: of two items the one named "ab" is shown, the one named "b" is not.
C20_Witness ==
    /\ dom.search = <<"A">>
    /\ Len(appState.dashboardItems) = 2
    /\ Field(appState.dashboardItems[1], "filename", <<>>) = <<"b">>
    /\ Len(dom.listed) = 1
    /\ Field(dom.listed[1], "filename", <<>>) = <<"a", "b">>
    /\ ~dom.emptyState

\* "z" is searched and is in no file name: the message is shown.
C20_WitnessNoMatch ==
    /\ dom.search = <<"z">>
    /\ appState.dashboardItems # <<>>
    /\ dom.emptyState

\* ------------------------------------------------ claims: loading an analysis

InitLoad == InitIn("load")

\* Analyses are opened from the dashboard, by an upload and by a reload.
NextLoad ==
    \/ ClickToDashboard
    \/ DashboardResponse
    \/ ClickRow
    \/ LoadResponse
    \/ ClickShowUpload
    \/ SelectFile
    \/ ClickAnalyze
    \/ AnalyzeResponse
    \/ ClickTryAgain
    \/ Reload

SpecLoad == InitLoad /\ [][NextLoad]_vars

\* the messages of a render that failed on a field that is no array
RenderFailures ==
    {"data.key_info.forEach is not a function",
     "data.identified_actions.forEach is not a function",
     "data.extracted_text.forEach is not a function"}

\* the requests of loadAnalysis and of the analyze button in flight
Loads(net) == SelectSeq(net, LAMBDA e : e.k \in {"load", "analyze"})

\* C24: a load of an analysis (a row's click, the analyze button, the restore
\* of a reload) shows the loading view as it sends its request; the step that
\* handles its response shows results when the request and the render
\* succeeded and error with the failure's message otherwise; after the response
\* of the only pending load the loading view is not showing.
C24_LoadingThenResultsOrError ==
    [][ /\ (Len(Loads(inflight')) > Len(Loads(inflight))) => View' = {"loading"}
        /\ (Len(Loads(inflight')) < Len(Loads(inflight))) =>
           \A i \in {j \in 1..Len(inflight) : inflight[j].k \in {"load", "analyze"}} :
           \A resp \in Responses(inflight[i]) :
              \/ /\ IF apiCallResult(resp).threw
                     THEN /\ View' = {"error"}
                          /\ dom'.errorMessage = apiCallResult(resp).message
                     ELSE IF Field(apiCallResult(resp).value, "shape", "ok") # "ok"
                     THEN View' = {"error"} /\ dom'.errorMessage \in RenderFailures
                     ELSE View' = {"results"}
                 /\ Len(Loads(inflight)) = 1 => View' # {"loading"}
              \/ ~(LoadResponseAt(i, resp) \/ AnalyzeResponseAt(i, resp))
      ]_vars

\* A load failed and the error view shows the server's message.
C24_Witness ==
    /\ View = {"error"}
    /\ dom.errorMessage = "Analysis not found"
    /\ Loads(inflight) = <<>>
    /\ lastLoad = 1

\* C26: while the results view is visible, the events and the lifecycle
\* summary of the timeline pane are those of the analysis in
\* appState.currentAnalysis, and every generation request in flight is made for
\* the analysis of the listing request of its fetchTimeline call.
C26_TimelineOfCurrentAnalysis ==
    /\ View = {"results"} =>
          /\ dom.timeline.eventsOf \in {0, appState.currentAnalysis.id}
          /\ dom.timeline.summaryOf \in {0, appState.currentAnalysis.id}
    /\ \A i \in 1..Len(inflight) :
          inflight[i].k \in {"timeline_gen_try", "timeline_gen_catch"}
             => inflight[i].id = inflight[i].call

\* C27: when the user has gone to the dashboard or to the upload view while
\* the request of a load or of the analyze button is pending, the response of
\* that request leaves the visible view and appState.currentAnalysis as they are.
C27_LateResponseLeavesView ==
    [][ ( /\ View \in {{"dashboard"}, {"upload"}}
          /\ Len(Loads(inflight')) < Len(Loads(inflight))
          /\ LoadResponse \/ AnalyzeResponse )
        => /\ View' = View
           /\ appState'.currentAnalysis = appState.currentAnalysis
      ]_vars

\* C28: every turn of appState.conversationHistory is a turn of the analysis
\* in appState.currentAnalysis.
C28_HistoryOfCurrentAnalysis ==
    \A n \in 1..Len(appState.conversationHistory) :
        appState.conversationHistory[n].of = appState.currentAnalysis.id

\* C29: the answer to a dashboard listing that was requested before the
\* server confirmed the deletion of an item brings that item back neither into
\* appState.dashboardItems nor into the rows shown, and the answer to a listing
\* that a later listing has already superseded leaves the list as it is.
C29_StaleListingDropped ==
    [][ \A i \in {j \in 1..Len(inflight) : inflight[j].k = "dashboard"} :
        \A resp \in Responses(inflight[i]) :
            DashboardResponseAt(i, resp) =>
                /\ Items(appState') \cap inflight[i].deleted = {}
                /\ dom'.rows \cap inflight[i].deleted = {}
                /\ inflight[i].superseded =>
                      appState'.dashboardItems = appState.dashboardItems
      ]_vars

\* C30: once an export has finished and every timer it set has fired, the
\* export button of the row shows its original label Export and is enabled.
C30_ExportButtonRestored ==
    \A id \in dom.rows :
        ( /\ \A i \in 1..Len(inflight) : ~(inflight[i].k = "export" /\ inflight[i].id = id)
          /\ \A i \in 1..Len(dom.timers) : dom.timers[i].id # id )
        => dom.exportBtn[id] = FreshButton

\* ---------------------------------------------- claims: the events' cards

\* The browser's last session ended on the results of an analysis.
InitEvents ==
    LET w == init([EmptyStorage EXCEPT !.chimeraPage = "results",
                                       !.chimeraAnalysisId = idString(1)])
    IN  /\ scope = "events"
        /\ appState = w.app
        /\ dom = w.dom
        /\ localStorage = w.ls
        /\ inflight = w.net
        /\ lastLoad = 1
        /\ lastCall = NoCall

\* The answers to the prompt for the address, the first of them dismissal.
Emails == {"", "a@b.c"}

\* click on the reminder button of the i-th card: the button's listener, then
\* the document's
ClickReminderAt(i, email) ==
    /\ Clickable /\ CanSend
    /\ ~dom.hidden["results"] /\ dom.panel = "timeline"
    /\ Len(dom.opened) + dom.notified < MaxReminders
    /\ i \in 1..Len(dom.timelineEvents)
    /\ User(reminderClicked(createGoogleCalendarEvent(World, dom.timelineEvents[i].ev),
                            dom.timelineEvents[i].eventId, email, 0))

ClickReminder ==
    \E i \in 1..Len(dom.timelineEvents) : \E email \in Emails : ClickReminderAt(i, email)

\* An analysis is loaded, its events are listed and reminders asked for.
NextEvents ==
    \/ LoadResponse
    \/ ClickTabTimeline
    \/ TimelineListResponse
    \/ ClickReminder

SpecEvents == InitEvents /\ [][NextEvents]_vars

\* the date of an event as the text it was given, empty when missing
DateText(ev) == Field(ev, "date", <<>>)

\* the event has no date, or one that is no date
Undated(ev) == DateText(ev) = <<>> \/ ~NewDate(DateText(ev)).valid

\* C22: an event whose date is missing or unparseable is still listed by
\* renderTimeline: every event given has its card, the cards are in the order
\* of the texts of their dates (the empty text for a missing date), and the
\* date line of such an event reads 'Due date not specified' for payment_due,
\* 'Deadline not specified' for action_required and 'Date not specified' for
\* any other kind.
C22_UndatedEventsListed ==
    LET events == dom.timelineGiven
        cards == dom.timelineEvents
    IN  /\ Len(cards) = Len(events)
        /\ \A k \in 1..Len(events) : \E c \in 1..Len(cards) : cards[c].ev = events[k]
        /\ \A c \in 1..(Len(cards) - 1) :
              localeCompare(DateText(cards[c].ev), DateText(cards[c + 1].ev)) <= 0
        /\ \A c \in 1..Len(cards) :
              Undated(cards[c].ev) =>
                 Joined(cards[c].date) =
                    (CASE Field(cards[c].ev, "kind", Undefined) = "payment_due" ->
                             "Due date not specified"
                       [] Field(cards[c].ev, "kind", Undefined) = "action_required" ->
                             "Deadline not specified"
                       [] OTHER -> "Date not specified")

\* a payment without a date is listed with its fallback
C22_Witness ==
    /\ Len(dom.timelineEvents) = 1
    /\ Field(dom.timelineEvents[1].ev, "kind", Undefined) = "payment_due"
    /\ DateText(dom.timelineEvents[1].ev) = <<"t", "b", "a">>
    /\ Joined(dom.timelineEvents[1].date) = "Due date not specified"

\* an event with a text for its date is listed after one with a day
C22_WitnessOrder ==
    /\ Len(dom.timelineEvents) = 2
    /\ NewDate(DateText(dom.timelineEvents[1].ev)).valid
    /\ DateText(dom.timelineEvents[2].ev) = <<"a", "-", "b">>
    /\ dom.timelineGiven[1] = dom.timelineEvents[2].ev
    /\ Joined(dom.timelineEvents[2].date) = "Date not specified"

\* the event can be given a calendar link: it has a date that parses and a label
Linkable(ev) ==
    /\ DateText(ev) # <<>>
    /\ Field(ev, "label", <<>>) # <<>>
    /\ NewDate(DateText(ev)).valid

\* C23: createGoogleCalendarEvent opens no window for an event without date
\* or label or with a date that does not parse: it shows one error
\* notification and the view stays as it is; a window is opened only for an
\* event with a label and a date that parses.
C23_NoLinkForInvalidEvent ==
    [][ (dom'.opened # dom.opened \/ dom'.notified # dom.notified) =>
        \A i \in 1..Len(dom.timelineEvents) : \A email \in Emails :
           ClickReminderAt(i, email) =>
              LET ev == dom.timelineEvents[i].ev
              IN  /\ ~Linkable(ev) =>
                        /\ dom'.opened = dom.opened
                        /\ dom'.notified = dom.notified + 1
                        /\ dom'.notification \in
                              {"Unable to create calendar reminder: "
                                  \o "Invalid event data: missing required fields",
                               "Unable to create calendar reminder: "
                                  \o "Invalid date format: " \o Joined(DateText(ev))}
                        /\ dom'.hidden = dom.hidden
                        /\ dom'.errorMessage = dom.errorMessage
                  /\ dom'.opened # dom.opened => Linkable(ev)
      ]_vars

\* the reminder of an event whose date is no date was asked for
C23_Witness ==
    /\ dom.opened = <<>>
    /\ dom.notified = 1
    /\ dom.notification = "Unable to create calendar reminder: Invalid date format: tba"

\* the reminder of an event with a day and a label was asked for
C23_WitnessOpened ==
    /\ Len(dom.opened) = 1
    /\ dom.notified = 0
    /\ Joined(dom.opened[1].dates[1]) = "20250301T090000Z"

\* ------------------------------------------------ claims: the results

\* The browser's last session ended on the results of an analysis.
InitResults ==
    LET w == init([EmptyStorage EXCEPT !.chimeraPage = "results",
                                       !.chimeraAnalysisId = idString(1)])
    IN  /\ scope = "results"
        /\ appState = w.app
        /\ dom = w.dom
        /\ localStorage = w.ls
        /\ inflight = w.net
        /\ lastLoad = 1
        /\ lastCall = NoCall

\* the analysis panel of the results is on the screen
AnalysisShown == Clickable /\ ~dom.hidden["results"] /\ dom.panel = "analysis"

\* click on the Simplify button of the i-th card (a disabled button takes no click)
ClickEli5At(i) ==
    /\ AnalysisShown
    /\ i \in 1..Len(dom.actionCards)
    /\ ~dom.actionCards[i].disabled
    /\ dom.actionCards[i].loaded \/ CanSend
    /\ User(handleEli5Toggle(World, i))

ClickEli5 == \E i \in 1..Len(dom.actionCards) : ClickEli5At(i)

Eli5ResponseAt(i, resp) ==
    /\ inflight[i].k = "eli5"
    /\ Resumes(i, resp, handleEli5ToggleResumed(Taken(i), inflight[i], apiCallResult(resp)))

Eli5Response ==
    \E i \in 1..Len(inflight) : \E resp \in Responses(inflight[i]) : Eli5ResponseAt(i, resp)

\* click on the expand button of a card
ClickExpand ==
    /\ AnalysisShown
    /\ \E i \in 1..Len(dom.actionCards) : User(handleExpandToggle(World, i))

\* click on #exact-toggle
ClickExactToggle ==
    /\ AnalysisShown
    /\ dom.exact.toggle
    /\ User(exactToggleClicked(World))

\* Analyses are opened one after the other and their cards are used.
NextResults ==
    \/ LoadResponse
    \/ ClickToDashboard
    \/ DashboardResponse
    \/ ClickRow
    \/ ClickEli5
    \/ Eli5Response
    \/ ClickExpand
    \/ ClickExactToggle
    \/ ClickTabTimeline

SpecResults == InitResults /\ [][NextResults]_vars

\* the analyses renderResults is given
Analyses ==
    {[id |-> Field(d, "id", 0), shape |-> Field(d, "shape", "ok"),
      extracted_text |-> Field(d, "extracted_text", <<>>),
      risk_highlights |-> Field(d, "risk_highlights", <<>>),
      identified_actions |-> Field(d, "identified_actions", <<>>),
      filename |-> Field(d, "filename", <<>>),
      page_images |-> Field(d, "page_images", <<>>)] :
        d \in UNION {AnalysisJson(id) : id \in AnalysisIds}}

\* C21: renderResults is idempotent: whatever the state it is called in, a
\* second call with the same analysis leaves the application state, the
\* document, the stored keys and what it raises as the first call left them,
\* and the list of actions holds the cards of that analysis only.
C21_RenderIdempotent ==
    \A d \in Analyses :
        LET once == renderResults(World, d)
            twice == renderResults(once.w, d)
        IN  /\ twice = once
            /\ ~once.threw =>
                  /\ once.w.dom.actionCards =
                        [i \in 1..Len(d.identified_actions) |->
                            actionCard(d.identified_actions[i])]
                  /\ once.w.dom.keyInfo = d.id

\* the state renderResults is called in: a card expanded, an explanation
\* shown, the exact view on and the timeline tab selected
C21_Witness ==
    /\ \E c \in 1..Len(dom.actionCards) : ~dom.actionCards[c].collapsed
    /\ \E c \in 1..Len(dom.actionCards) :
          dom.actionCards[c].loaded /\ ~dom.actionCards[c].eli5Hidden
    /\ dom.exact.on
    /\ dom.panel = "timeline"

\* the results were rendered again while an explanation was awaited
C21_WitnessRendered ==
    /\ ~dom.hidden["results"]
    /\ Len(dom.actionCards) = MaxActions
    /\ \A c \in 1..Len(dom.actionCards) :
          dom.actionCards[c] = actionCard([text |-> dom.actionCards[c].text])
    /\ \E i \in 1..Len(inflight) : inflight[i].k = "eli5" /\ ~inflight[i].attached

\* the requests for explanations
Eli5s(net) == SelectSeq(net, LAMBDA e : e.k = "eli5")

\* C25: the explanation of an action item is requested only by a click on the
\* button of an item that has none; once loaded, a click only switches between
\* the original text and the explanation and sends nothing, and the item stays
\* loaded until the results are rendered again; a failed request leaves the
\* item not loaded with its original text and shows a notification; one of the
\* original text and the explanation is visible, never both and never neither.
C25_Eli5FetchedOnceThenCached ==
    [][ /\ \A c \in 1..Len(dom.actionCards) :
              dom.actionCards[c].originalHidden # dom.actionCards[c].eli5Hidden
        /\ \A c \in 1..Len(dom'.actionCards) :
              dom'.actionCards[c].originalHidden # dom'.actionCards[c].eli5Hidden
        /\ Len(Eli5s(inflight')) > Len(Eli5s(inflight)) =>
              /\ Len(Eli5s(inflight')) = Len(Eli5s(inflight)) + 1
              /\ \E i \in 1..Len(dom.actionCards) :
                    ~dom.actionCards[i].loaded /\ ClickEli5At(i)
        /\ \A i \in 1..Len(dom.actionCards) :
              /\ (dom.actionCards[i].loaded /\ ClickEli5At(i)) =>
                    /\ inflight' = inflight
                    /\ dom'.actionCards[i].loaded
                    /\ dom'.actionCards[i].eli5Text = dom.actionCards[i].eli5Text
                    /\ dom'.actionCards[i].eli5Hidden = ~dom.actionCards[i].eli5Hidden
                    /\ dom'.actionCards[i].originalHidden = ~dom.actionCards[i].originalHidden
              /\ (/\ dom.actionCards[i].loaded
                  /\ i > Len(dom'.actionCards) \/ ~dom'.actionCards[i].loaded) =>
                    Len(Loads(inflight')) < Len(Loads(inflight))
        /\ \A i \in 1..Len(inflight) : \A resp \in Responses(inflight[i]) :
              (inflight[i].k = "eli5" /\ inflight[i].attached /\ Eli5ResponseAt(i, resp)) =>
                 LET card == dom'.actionCards[inflight[i].item]
                 IN  IF resp.ok
                     THEN /\ card.loaded
                          /\ ~card.eli5Hidden
                          /\ card.eli5Text \in {"in simple words", "No explanation available."}
                          /\ dom'.notification = dom.notification
                     ELSE /\ ~card.loaded
                          /\ ~card.originalHidden
                          /\ card.eli5Text = ""
                          /\ dom'.notification = "Failed to load ELI5 explanation."
      ]_vars

\* a loaded explanation was hidden again by a click
C25_Witness ==
    /\ inflight = <<>>
    /\ \E c \in 1..Len(dom.actionCards) :
          /\ dom.actionCards[c].loaded
          /\ dom.actionCards[c].label = "ELI5"
          /\ dom.actionCards[c].eli5Hidden

\* a request for an explanation failed
C25_WitnessFailed ==
    /\ inflight = <<>>
    /\ dom.notification = "Failed to load ELI5 explanation."
    /\ \E c \in 1..Len(dom.actionCards) :
          ~dom.actionCards[c].loaded /\ dom.actionCards[c].label = "Simplify"

====
